---- MODULE Spec2Model ----
(***************************************************************************)
(* A model of the worker tasks of the trading-floor repository:            *)
(*   compliance_engine.py   the pre-trade compliance gate                  *)
(*   order_engine.py        VWAP/TWAP order creation                       *)
(*   execution_engine.py    order routing                                  *)
(*   backtester.py          BacktestEngine and the simulated Portfolio     *)
(*   portfolio_optimizer.py the three optimisation methods                 *)
(*                                                                         *)
(* Numbers are fixed point.  Compliance weights are in basis points        *)
(* (WScale = 1.0), betas in hundredths, adv ratios / VaR / tracking error  *)
(* in thousandths.  The random draws of the simulated loaders are inputs   *)
(* chosen with \E from the sets named *Choices below.                      *)
(***************************************************************************)
EXTENDS Integers, Sequences, FiniteSets, TLC

VARIABLES
    compliance,   \* the last run_pre_trade_checks call: its inputs and its result
    statusCase,   \* the last calculate_compliance_status call on a bare status list
    verdicts,     \* every (weights, overall_status) run_pre_trade_checks has returned
    orders,       \* the orders create_vwap_order / create_twap_order have returned
    routed,       \* the results route_order has returned
    rng,          \* the state of the process-global generator np.random
    runs,         \* per run_backtest call: its arguments, its locals, its result
    rebalanceCase, \* the last Portfolio.rebalance call on a bare Portfolio
    optimization, \* the last optimize_portfolio call: its arguments and its outcome
    signalCase,   \* the last compute_signals call: its recipe and its outcome
    winsorCase,   \* the last winsorize_series calls on a bare series
    riskCase,     \* the last historical VaR / ES calls on a bare return series
    positionCase, \* the last check_position_limits call on a bare portfolio
    sliceCase,    \* the last generate_*_slices call on bare required trades
    exceptions,   \* the exception requests request_exception has returned
    constraintCase, \* the last _apply_constraints call on bare weights
    execution,    \* the execute_order call in progress: its fills and status updates
    discovery     \* the last discover_strategies call: its helpers' outcomes and its result

complianceVars == <<compliance, statusCase, verdicts>>
orderVars == <<orders, routed>>
backtestVars == <<rng, runs, rebalanceCase, optimization>>
caseVars == <<signalCase, winsorCase, riskCase, positionCase, sliceCase>>
taskVars == <<constraintCase, execution, discovery>>
vars == <<compliance, statusCase, verdicts, orders, routed, rng, runs,
          rebalanceCase, optimization, signalCase, winsorCase, riskCase,
          positionCase, sliceCase, exceptions, constraintCase, execution,
          discovery>>

----------------------------------------------------------------------------
(* Helpers *)

Abs(x) == IF x < 0 THEN -x ELSE x

RECURSIVE SumOver(_, _)
\* sum(f[k] for k in S)
SumOver(f, S) ==
    IF S = {} THEN 0
    ELSE LET k == CHOOSE x \in S : TRUE IN f[k] + SumOver(f, S \ {k})

\* every sequence over S of length 0..n
SeqsUpTo(S, n) == UNION {[1..k -> S] : k \in 0..n}

----------------------------------------------------------------------------
(* compliance_engine.py *)

WScale == 100 * 100

\* the simulated risk metrics of load_portfolio_data, in thousandths
PortfolioVar95 == -25
TrackingError == 45

Symbols == {"A", "B"}

\* load_ruleset's table
Rulesets ==
    [long_only_fund |->
        [position_limits |-> [max_single_position |-> 500, min_position_size |-> 10,
                              max_short_position |-> 0],
         sector_limits |-> [max_sector_weight |-> 3000, min_sector_weight |-> 0],
         leverage_limits |-> [max_gross_exposure |-> 10000, max_net_exposure |-> 10000],
         risk_limits |-> [max_portfolio_beta |-> 120, max_var_95 |-> -30,
                          max_tracking_error |-> 50],
         liquidity_requirements |-> [min_adv_ratio |-> 10, max_illiquid_weight |-> 2000],
         concentration_limits |-> [max_concentration_index |-> 15000000],
         restricted_securities |-> {"TOXIC_STOCK", "SANCTIONED_ENTITY"},
         watchlist_securities |-> {"VOLATILE_STOCK", "LOW_LIQUIDITY"},
         esg_requirements |-> [min_esg_score |-> 50]],
     long_short_fund |->
        [position_limits |-> [max_single_position |-> 800, min_position_size |-> 10,
                              max_short_position |-> -500],
         sector_limits |-> [max_sector_weight |-> 4000, min_sector_weight |-> -2000],
         leverage_limits |-> [max_gross_exposure |-> 20000, max_net_exposure |-> 5000],
         risk_limits |-> [max_portfolio_beta |-> 80, max_var_95 |-> -40,
                          max_tracking_error |-> 80],
         liquidity_requirements |-> [min_adv_ratio |-> 5, max_illiquid_weight |-> 3000],
         concentration_limits |-> [max_concentration_index |-> 20000000],
         restricted_securities |-> {"TOXIC_STOCK", "SANCTIONED_ENTITY"},
         watchlist_securities |-> {"VOLATILE_STOCK", "LOW_LIQUIDITY"},
         esg_requirements |-> [min_esg_score |-> 30]]]

\* rulesets.get(ruleset_id, rulesets['long_only_fund'])
load_ruleset(ruleset_id) ==
    IF ruleset_id \in DOMAIN Rulesets THEN Rulesets[ruleset_id]
    ELSE Rulesets["long_only_fund"]

\* The draws of load_portfolio_data for one position.  market_cap and volatility
\* are drawn too, and no check reads them.
SectorChoices == {"Technology", "Healthcare"}
CountryChoices == {"US"}
EsgChoices == {20, 80}
AdvChoices == {2, 50}
BetaChoices == {100, 300}

PositionDraws ==
    [sector : SectorChoices, country : CountryChoices, esg_score : EsgChoices,
     adv_ratio : AdvChoices, beta : BetaChoices,
     is_restricted : BOOLEAN, is_watchlist : BOOLEAN]

load_portfolio_data(weights, draws) ==
    LET syms == DOMAIN weights
        positions ==
            [s \in syms |->
                [weight |-> weights[s], sector |-> draws[s].sector,
                 country |-> draws[s].country, esg_score |-> draws[s].esg_score,
                 adv_ratio |-> draws[s].adv_ratio, beta |-> draws[s].beta,
                 is_restricted |-> draws[s].is_restricted,
                 is_watchlist |-> draws[s].is_watchlist]]
        total_weight == SumOver(weights, syms)
        gross == SumOver([s \in syms |-> Abs(weights[s])], syms)
        sectors == {positions[s].sector : s \in syms}
    IN  [positions |-> positions,
         portfolio_stats |->
            [total_weight |-> total_weight,
             gross_exposure |-> gross,
             net_exposure |-> total_weight,
             leverage |-> IF total_weight # 0
                          THEN (gross * WScale) \div Abs(total_weight) ELSE 0,
             num_positions |-> Cardinality(syms)],
         sector_exposures |->
            [sec \in sectors |->
                SumOver(weights, {s \in syms : positions[s].sector = sec})],
         risk_metrics |->
            [portfolio_beta |->
                SumOver([s \in syms |-> positions[s].beta * weights[s]], syms),
             portfolio_var_95 |-> PortfolioVar95,
             tracking_error |-> TrackingError,
             concentration_index |->
                SumOver([s \in syms |-> weights[s] * weights[s]], syms)]]

\* the tail every check shares: FAIL on a violation, else WARNING on a warning
CheckResult(violations, warnings) ==
    [status |-> IF violations # {} THEN "FAIL"
                ELSE IF warnings # {} THEN "WARNING" ELSE "PASS",
     violations |-> violations,
     warnings |-> warnings]

\* a slip: the size limit is compared with the signed weight
check_position_limits_signed(portfolio_data, ruleset) ==
    LET P == portfolio_data.positions
        max_single == ruleset.position_limits.max_single_position
        min_position == ruleset.position_limits.min_position_size
        max_short == ruleset.position_limits.max_short_position
    IN  CheckResult(
            {[symbol |-> s, rule |-> "max_single_position"] :
                s \in {x \in DOMAIN P : P[x].weight > max_single}}
            \cup
            {[symbol |-> s, rule |-> "max_short_position"] :
                s \in {x \in DOMAIN P : P[x].weight < max_short}},
            {[symbol |-> s, rule |-> "min_position_size"] :
                s \in {x \in DOMAIN P : Abs(P[x].weight) > 0
                                        /\ Abs(P[x].weight) < min_position}})

check_position_limits_mut(portfolio_data, ruleset) ==
    LET P == portfolio_data.positions
        min_position == ruleset.position_limits.min_position_size
        max_short == ruleset.position_limits.max_short_position
    IN  CheckResult(
            {[symbol |-> s, rule |-> "max_short_position"] :
                s \in {x \in DOMAIN P : P[x].weight < max_short}},
            {[symbol |-> s, rule |-> "min_position_size"] :
                s \in {x \in DOMAIN P : Abs(P[x].weight) > 0
                                        /\ Abs(P[x].weight) < min_position}})

check_position_limits(portfolio_data, ruleset) ==
    LET P == portfolio_data.positions
        max_single == ruleset.position_limits.max_single_position
        min_position == ruleset.position_limits.min_position_size
        max_short == ruleset.position_limits.max_short_position
    IN  CheckResult(
            {[symbol |-> s, rule |-> "max_single_position"] :
                s \in {x \in DOMAIN P : Abs(P[x].weight) > max_single}}
            \cup
            {[symbol |-> s, rule |-> "max_short_position"] :
                s \in {x \in DOMAIN P : P[x].weight < max_short}},
            {[symbol |-> s, rule |-> "min_position_size"] :
                s \in {x \in DOMAIN P : Abs(P[x].weight) > 0
                                        /\ Abs(P[x].weight) < min_position}})

check_restricted_securities(portfolio_data, ruleset) ==
    LET P == portfolio_data.positions
    IN  CheckResult(
            {[symbol |-> s, rule |-> "restricted_securities"] :
                s \in {x \in DOMAIN P : P[x].is_restricted
                                        \/ x \in ruleset.restricted_securities}},
            {})

\* warnings only: the status is WARNING or PASS
check_watchlist_securities(portfolio_data, ruleset) ==
    LET P == portfolio_data.positions
    IN  CheckResult(
            {},
            {[symbol |-> s, rule |-> "watchlist_securities"] :
                s \in {x \in DOMAIN P : P[x].is_watchlist
                                        \/ x \in ruleset.watchlist_securities}})

check_leverage_limits(portfolio_data, ruleset) ==
    LET stats == portfolio_data.portfolio_stats
        limits == ruleset.leverage_limits
    IN  CheckResult(
            (IF stats.gross_exposure > limits.max_gross_exposure
             THEN {[symbol |-> "", rule |-> "max_gross_exposure"]} ELSE {})
            \cup
            (IF Abs(stats.net_exposure) > limits.max_net_exposure
             THEN {[symbol |-> "", rule |-> "max_net_exposure"]} ELSE {}),
            {})

\* beta is in hundredths and weights in basis points: both sides in 1e-6
check_beta_limits(portfolio_data, ruleset) ==
    LET portfolio_beta == portfolio_data.risk_metrics.portfolio_beta
        max_beta == ruleset.risk_limits.max_portfolio_beta
    IN  CheckResult(
            IF Abs(portfolio_beta) > max_beta * WScale
            THEN {[symbol |-> "", rule |-> "max_portfolio_beta"]} ELSE {},
            {})

check_sector_limits(portfolio_data, ruleset) ==
    LET E == portfolio_data.sector_exposures
        max_sector == ruleset.sector_limits.max_sector_weight
        min_sector == ruleset.sector_limits.min_sector_weight
    IN  CheckResult(
            {[symbol |-> sec, rule |-> "max_sector_weight"] :
                sec \in {x \in DOMAIN E : E[x] > max_sector}}
            \cup
            {[symbol |-> sec, rule |-> "min_sector_weight"] :
                sec \in {x \in DOMAIN E : ~(E[x] > max_sector) /\ E[x] < min_sector}},
            {})

check_liquidity_requirements(portfolio_data, ruleset) ==
    LET P == portfolio_data.positions
        min_adv_ratio == ruleset.liquidity_requirements.min_adv_ratio
        max_illiquid == ruleset.liquidity_requirements.max_illiquid_weight
        illiquid == {x \in DOMAIN P : P[x].adv_ratio < min_adv_ratio}
        illiquid_weight == SumOver([s \in DOMAIN P |-> Abs(P[s].weight)], illiquid)
    IN  CheckResult(
            IF illiquid_weight > max_illiquid
            THEN {[symbol |-> "", rule |-> "max_illiquid_weight"]} ELSE {},
            {[symbol |-> s, rule |-> "min_adv_ratio"] : s \in illiquid})

\* concentration_index is a sum of squared basis points: 1e-8
check_concentration_limits(portfolio_data, ruleset) ==
    LET concentration_index == portfolio_data.risk_metrics.concentration_index
        max_concentration == ruleset.concentration_limits.max_concentration_index
    IN  CheckResult(
            IF concentration_index > max_concentration
            THEN {[symbol |-> "", rule |-> "max_concentration_index"]} ELSE {},
            {})

check_var_limits(portfolio_data, ruleset) ==
    LET portfolio_var == portfolio_data.risk_metrics.portfolio_var_95
        max_var == ruleset.risk_limits.max_var_95
    IN  CheckResult(
            IF portfolio_var < max_var
            THEN {[symbol |-> "", rule |-> "max_var_95"]} ELSE {},
            {})

check_tracking_error_limits(portfolio_data, ruleset) ==
    LET tracking_error == portfolio_data.risk_metrics.tracking_error
        max_te == ruleset.risk_limits.max_tracking_error
    IN  CheckResult(
            IF tracking_error > max_te
            THEN {[symbol |-> "", rule |-> "max_tracking_error"]} ELSE {},
            {})

check_esg_requirements(portfolio_data, ruleset) ==
    LET P == portfolio_data.positions
        min_esg_score == ruleset.esg_requirements.min_esg_score
    IN  CheckResult(
            {},
            {[symbol |-> s, rule |-> "min_esg_score"] :
                s \in {x \in DOMAIN P : P[x].esg_score < min_esg_score}})

SanctionedCountries == {"IR", "KP", "CU"}

check_regulatory_limits(portfolio_data, ruleset) ==
    LET P == portfolio_data.positions
    IN  CheckResult(
            {[symbol |-> s, rule |-> "sanctioned_country"] :
                s \in {x \in DOMAIN P : P[x].country \in SanctionedCountries}},
            {})

\* check_results is a dict filled in this order; a dict keeps insertion order,
\* so it is a sequence of named results
RunChecks(portfolio_data, ruleset) ==
    LET named(n, r) == [name |-> n, status |-> r.status,
                        violations |-> r.violations, warnings |-> r.warnings]
    IN  << named("position_limits", check_position_limits(portfolio_data, ruleset)),
           named("restricted_securities", check_restricted_securities(portfolio_data, ruleset)),
           named("watchlist_securities", check_watchlist_securities(portfolio_data, ruleset)),
           named("leverage_limits", check_leverage_limits(portfolio_data, ruleset)),
           named("beta_limits", check_beta_limits(portfolio_data, ruleset)),
           named("sector_limits", check_sector_limits(portfolio_data, ruleset)),
           named("liquidity_requirements", check_liquidity_requirements(portfolio_data, ruleset)),
           named("concentration_limits", check_concentration_limits(portfolio_data, ruleset)),
           named("var_limits", check_var_limits(portfolio_data, ruleset)),
           named("tracking_error_limits", check_tracking_error_limits(portfolio_data, ruleset)),
           named("esg_requirements", check_esg_requirements(portfolio_data, ruleset)),
           named("regulatory_limits", check_regulatory_limits(portfolio_data, ruleset)) >>

\* a plausible slip: the verdict of the first check that is not PASS
calculate_compliance_status_mut(statuses) ==
    LET bad == {i \in 1..Len(statuses) : statuses[i] # "PASS"}
    IN  IF bad = {} THEN "OK"
        ELSE LET first == CHOOSE i \in bad : \A j \in bad : i <= j
             IN  IF statuses[first] = "FAIL" THEN "BLOCK" ELSE "REVIEW"

\* statuses: result['status'] for result in check_results.values(), in dict order
calculate_compliance_status(statuses) ==
    LET has_failures == \E i \in 1..Len(statuses) : statuses[i] = "FAIL"
        has_warnings == \E i \in 1..Len(statuses) : statuses[i] = "WARNING"
    IN  IF has_failures THEN "BLOCK"
        ELSE IF has_warnings THEN "REVIEW"
        ELSE "OK"

StatusesOf(check_results) == [i \in 1..Len(check_results) |-> check_results[i].status]

\* a slip: every check that did not fail is counted as passed
generate_compliance_report_mut(check_results, overall_status) ==
    LET idx == 1..Len(check_results)
        count(st) == Cardinality({i \in idx : check_results[i].status = st})
        tagged(i, recs) == {[check_type |-> check_results[i].name,
                             symbol |-> v.symbol, rule |-> v.rule] : v \in recs}
        violations == UNION {tagged(i, check_results[i].violations) : i \in idx}
        warnings == UNION {tagged(i, check_results[i].warnings) : i \in idx}
    IN  [overall_status |-> overall_status,
         summary |-> [total_checks |-> Len(check_results),
                      passed_checks |-> Len(check_results) - count("FAIL"),
                      warning_checks |-> count("WARNING"),
                      failed_checks |-> count("FAIL")],
         violations |-> violations,
         warnings |-> warnings,
         recommendations |->
            (IF violations # {}
             THEN {"Address all violations before proceeding with trade"} ELSE {})
            \cup (IF warnings # {}
                  THEN {"Review warnings and consider adjustments"} ELSE {})
            \cup (IF overall_status = "OK"
                  THEN {"All compliance checks passed - trade can proceed"} ELSE {})]

generate_compliance_report(check_results, overall_status) ==
    LET idx == 1..Len(check_results)
        count(st) == Cardinality({i \in idx : check_results[i].status = st})
        tagged(i, recs) == {[check_type |-> check_results[i].name,
                             symbol |-> v.symbol, rule |-> v.rule] : v \in recs}
        violations == UNION {tagged(i, check_results[i].violations) : i \in idx}
        warnings == UNION {tagged(i, check_results[i].warnings) : i \in idx}
    IN  [overall_status |-> overall_status,
         summary |-> [total_checks |-> Len(check_results),
                      passed_checks |-> count("PASS"),
                      warning_checks |-> count("WARNING"),
                      failed_checks |-> count("FAIL")],
         violations |-> violations,
         warnings |-> warnings,
         recommendations |->
            (IF violations # {}
             THEN {"Address all violations before proceeding with trade"} ELSE {})
            \cup (IF warnings # {}
                  THEN {"Review warnings and consider adjustments"} ELSE {})
            \cup (IF overall_status = "OK"
                  THEN {"All compliance checks passed - trade can proceed"} ELSE {})]

\* the body of the task run_pre_trade_checks
PreTradeResult(portfolio_weights, draws, ruleset_id) ==
    LET portfolio_data == load_portfolio_data(portfolio_weights, draws)
        ruleset == load_ruleset(ruleset_id)
        check_results == RunChecks(portfolio_data, ruleset)
        overall_status == calculate_compliance_status(StatusesOf(check_results))
    IN  [status |-> "success",
         overall_status |-> overall_status,
         check_results |-> check_results,
         compliance_report |-> generate_compliance_report(check_results, overall_status)]

ComplianceIdle ==
    [phase |-> "idle", portfolio_weights |-> <<>>, ruleset_id |-> "", result |-> <<>>]

StatusCaseIdle == [phase |-> "idle", statuses |-> <<>>, verdict |-> ""]

\* the weights a caller may propose, in basis points
WeightChoices == {-600, 5, 300, 600, 6000}
\* the draws of a two-position portfolio: every draw for A, and for B the sector
\* and restricted draws
ComplianceDraws ==
    {[s \in Symbols |-> IF s = "A" THEN a ELSE b] :
        a \in PositionDraws,
        b \in {d \in PositionDraws : d.esg_score = 80 /\ d.adv_ratio = 50
                                      /\ d.beta = 100 /\ ~d.is_watchlist}}
RulesetIds == {"long_only_fund", "long_short_fund"}
\* the longest bare status list calculate_compliance_status is applied to
MaxChecks == 3
Statuses == {"PASS", "WARNING", "FAIL"}

----------------------------------------------------------------------------
(* order_engine.py, execution_engine.py.  Money is in whole dollars, times in
   minutes, volume multipliers in tenths. *)

\* a / b rounded toward zero
QuoT(a, b) == IF a >= 0 THEN a \div b ELSE -((-a) \div b)

\* load_current_portfolio()['total_value']
PortfolioTotalValue == 10000000
\* calculate_required_trades: abs(trade_value) > 1000
MinTradeSize == 1000
\* generate_*_slices: abs(slice_trade_value) > 100
MinSliceSize == 100
\* calculate_volume_multiplier: 1.5 and 0.7, in tenths
HighVolume == 15
LowVolume == 7
VolumeUnit == 10

\* the symbols of the proposed weights that load_current_portfolio holds
HeldSymbols == {"A"}
\* the market_value draws of load_current_portfolio
MarketValueChoices == {100000, 500000}

load_current_portfolio(market_values) ==
    [positions |-> [s \in DOMAIN market_values |-> [market_value |-> market_values[s]]],
     total_value |-> PortfolioTotalValue]

\* target_weights are in basis points: total_value * target_weight is taken as
\* (total_value / WScale) * basis points, which is exact for this total_value
calculate_required_trades(current_portfolio, target_weights) ==
    LET trade_value(s) ==
            (current_portfolio.total_value \div WScale) * target_weights[s]
            - (IF s \in DOMAIN current_portfolio.positions
               THEN current_portfolio.positions[s].market_value ELSE 0)
        kept == {s \in DOMAIN target_weights : Abs(trade_value(s)) > MinTradeSize}
    IN  [s \in kept |-> trade_value(s)]

\* int(total_duration / slice_duration)
NumSlices(order_params) == order_params.duration \div order_params.slice_duration

\* elapsed and total are minutes since start_time
calculate_volume_multiplier(elapsed, total) ==
    IF elapsed < 60 \/ elapsed > total - 60 THEN HighVolume ELSE LowVolume

SliceOf(i, order_params, multiplier, required_trades, num_slices) ==
    LET value(s) == QuoT(required_trades[s] * multiplier, VolumeUnit * num_slices)
        kept == {s \in DOMAIN required_trades : Abs(value(s)) > MinSliceSize}
    IN  [slice_id |-> i,
         start_time |-> (i - 1) * order_params.slice_duration,
         end_time |-> i * order_params.slice_duration,
         status |-> "PENDING",
         volume_multiplier |-> multiplier,
         trades |-> [s \in kept |-> value(s)]]

generate_vwap_slices(required_trades, order_params) ==
    LET num_slices == NumSlices(order_params)
    IN  [i \in 1..num_slices |->
            SliceOf(i, order_params,
                    calculate_volume_multiplier((i - 1) * order_params.slice_duration,
                                                order_params.duration),
                    required_trades, num_slices)]

generate_twap_slices(required_trades, order_params) ==
    LET num_slices == NumSlices(order_params)
    IN  [i \in 1..num_slices |->
            SliceOf(i, order_params, VolumeUnit, required_trades, num_slices)]

calculate_total_notional(required_trades) ==
    SumOver([s \in DOMAIN required_trades |-> Abs(required_trades[s])],
            DOMAIN required_trades)

NewOrder(order_id, order_type, portfolio_weights, required_trades, order_slices) ==
    [order_id |-> order_id,
     order_type |-> order_type,
     status |-> "PENDING",
     target_weights |-> portfolio_weights,
     total_notional |-> calculate_total_notional(required_trades),
     slices |-> order_slices,
     execution_summary |-> [total_slices |-> Len(order_slices), executed_slices |-> 0,
                            total_executed |-> 0, total_commission |-> 0,
                            avg_execution_price |-> 0]]

\* the most orders a behaviour creates, and routes
MaxOrders == 1

\* the task create_vwap_order: nothing in it, or before it, asks for a verdict
create_vwap_order(W, OP) ==
    /\ Cardinality(orders) < MaxOrders
    /\ \E w \in W, mv \in [HeldSymbols -> MarketValueChoices], op \in OP :
          LET required_trades == calculate_required_trades(load_current_portfolio(mv), w)
          IN  orders' = orders \cup
                {NewOrder(Cardinality(orders) + 1, "VWAP", w, required_trades,
                          generate_vwap_slices(required_trades, op))}
    /\ UNCHANGED <<taskVars, caseVars, exceptions, complianceVars, routed, backtestVars>>

\* the task create_twap_order
create_twap_order(W, OP) ==
    /\ Cardinality(orders) < MaxOrders
    /\ \E w \in W, mv \in [HeldSymbols -> MarketValueChoices], op \in OP :
          LET required_trades == calculate_required_trades(load_current_portfolio(mv), w)
          IN  orders' = orders \cup
                {NewOrder(Cardinality(orders) + 1, "TWAP", w, required_trades,
                          generate_twap_slices(required_trades, op))}
    /\ UNCHANGED <<taskVars, caseVars, exceptions, complianceVars, routed, backtestVars>>

select_execution_venue(symbol) ==
    IF symbol \in {"AAPL", "MSFT", "GOOGL"} THEN "NASDAQ"
    ELSE IF symbol \in {"SPY", "QQQ"} THEN "ARCA"
    ELSE "NYSE"

send_to_venue(venue) == [status |-> "SENT", venue |-> venue]

RouteSymbols == {"A", "AAPL", "SPY"}
RouteSides == {"BUY", "SELL"}

\* the task route_order: order_data names one symbol, a side and a quantity
route_order ==
    /\ Cardinality(routed) < MaxOrders
    /\ \E symbol \in RouteSymbols, side \in RouteSides :
          LET venue == select_execution_venue(symbol)
          IN  routed' = routed \cup
                {[status |-> "success", order_id |-> Cardinality(routed) + 1,
                  symbol |-> symbol, side |-> side, venue |-> venue,
                  routing_status |-> send_to_venue(venue).status]}
    /\ UNCHANGED <<taskVars, caseVars, exceptions, complianceVars, orders, backtestVars>>

----------------------------------------------------------------------------
(* backtester.py.  Cash and values are in thousandths of a currency unit and
   shares in thousandths of a share (FixedPoint = 1.0), prices in whole currency
   units, weights in thousandths (WeightOne = 1.0), rates in basis points.
   Dates are day numbers; day 7, 14, ... end a week and day 30, 60, ... a month. *)

FixedPoint == 1000
WeightOne == 1000
RateOne == 100 * 100
\* apply_borrowing_costs: borrow_rate / 252
TradingDays == 252
\* np.random.seed(42)
SeedValue == 42

\* np.random is modelled as a full-period linear congruential generator: what
\* the model keeps of it is that a draw is a function of the state and moves it
RngMod == 64
RngMul == 5
RngInc == 3

RngSeed(seed) == seed % RngMod
RngNext(g) == (g * RngMul + RngInc) % RngMod

RECURSIVE RngJump(_)
\* k draws in one step: the state after them is (mul * g + inc) % RngMod
RngJump(k) ==
    IF k = 0 THEN [mul |-> 1, inc |-> 0]
    ELSE IF k % 2 = 0
    THEN LET half == RngJump(k \div 2)
         IN  [mul |-> (half.mul * half.mul) % RngMod,
              inc |-> (half.mul * half.inc + half.inc) % RngMod]
    ELSE LET rest == RngJump(k - 1)
         IN  [mul |-> (RngMul * rest.mul) % RngMod,
              inc |-> (RngMul * rest.inc + RngInc) % RngMod]

\* the state after k draws
RngAdvance(g, k) == (RngJump(k).mul * g + RngJump(k).inc) % RngMod

BtSymbols == <<"SYMBOL_000", "SYMBOL_001">>
BtSymbolSet == {BtSymbols[k] : k \in 1..Len(BtSymbols)}

\* 100 * exp(cumsum(returns))[i]: a price fixed by the generator state at its draw
PriceChoices == <<2, 3, 4, 2>>
PriceOf(g) == PriceChoices[(g % Len(PriceChoices)) + 1]

\* np.random.dirichlet(np.ones(n_symbols)): a weight vector fixed by the state
DirichletChoices == << <<700, 300>>, <<500, 500>>, <<200, 800>>, <<400, 600>> >>
DirichletOf(g) == DirichletChoices[((g \div 4) % Len(DirichletChoices)) + 1]

NumDays(params) == params.end_date - params.start_date + 1

\* a slip: the generator is left as the previous caller left it
load_historical_data_mut(params, g) ==
    LET n == NumDays(params)
        at(k, d) == RngAdvance(g, (k - 1) * 3 * n + (d - params.start_date))
    IN  [data |-> [k \in 1..Len(BtSymbols) |->
                      [d \in params.start_date..params.end_date |-> PriceOf(at(k, d))]],
         rng |-> RngAdvance(g, Len(BtSymbols) * 3 * n)]

\* load_historical_data seeds the generator, then for each symbol draws the
\* returns of all n dates and, date by date, a volume and a market_cap: 3n draws
load_historical_data(params, g) ==
    LET n == NumDays(params)
        seeded == RngSeed(SeedValue)
        at(k, d) == RngAdvance(seeded, (k - 1) * 3 * n + (d - params.start_date))
    IN  [data |-> [k \in 1..Len(BtSymbols) |->
                      [d \in params.start_date..params.end_date |-> PriceOf(at(k, d))]],
         rng |-> RngAdvance(seeded, Len(BtSymbols) * 3 * n)]

RECURSIVE SortedSeq(_)
\* the members of a set of numbers, ascending
SortedSeq(S) ==
    IF S = {} THEN <<>>
    ELSE LET m == CHOOSE x \in S : \A y \in S : x <= y
         IN  <<m>> \o SortedSeq(S \ {m})

FreqPeriod(freq) == IF freq = "D" THEN 1 ELSE IF freq = "W" THEN 7 ELSE 30

\* pd.date_range(start_date, end_date, freq=...): the period ends in the range
\* (start_date and end_date are the panel's first and last date)
get_rebalance_dates(params) ==
    SortedSeq({d \in params.start_date..params.end_date :
                  d % FreqPeriod(params.rebalance_freq) = 0})

SupportedFreq == {"D", "W", "M"}

get_prices_at_date(data, date) ==
    [s \in BtSymbolSet |->
        data[CHOOSE k \in 1..Len(BtSymbols) : BtSymbols[k] = s][date]]

Min(a, b) == IF a < b THEN a ELSE b
Max(a, b) == IF a > b THEN a ELSE b

RECURSIVE SeqSum(_)
SeqSum(q) == IF q = <<>> THEN 0 ELSE Head(q) + SeqSum(Tail(q))

\* np.clip(weights, 0, max_position), then weights / weights.sum()
apply_constraints(weights, max_position) ==
    LET clipped == [k \in 1..Len(weights) |-> Min(Max(weights[k], 0), max_position)]
        total == SeqSum(clipped)
    IN  [k \in 1..Len(weights) |-> (clipped[k] * WeightOne) \div total]

calculate_target_weights(max_position, g) ==
    LET weights == apply_constraints(DirichletOf(g), max_position)
    IN  [weights |-> [s \in BtSymbolSet |->
                        weights[CHOOSE k \in 1..Len(BtSymbols) : BtSymbols[k] = s]],
         rng |-> RngNext(g)]

NewPortfolio(initial_capital) ==
    [cash |-> initial_capital * FixedPoint,
     positions |-> <<>>,
     total_value |-> initial_capital * FixedPoint]

Held(portfolio) == DOMAIN portfolio.positions

PositionsValue(portfolio, prices) ==
    SumOver([s \in Held(portfolio) \cap DOMAIN prices |->
                portfolio.positions[s] * prices[s]],
            Held(portfolio) \cap DOMAIN prices)

\* abs(trade_value) * transaction_costs
CostOf(trade_value, transaction_costs) ==
    (Abs(trade_value) * transaction_costs) \div RateOne

\* what line 225-227 takes from cash for one trade
ChargedCost(trade_value, transaction_costs) ==
    IF trade_value > 0 THEN CostOf(trade_value, transaction_costs) ELSE 0

\* Portfolio.rebalance: the new Portfolio and the trades it returns.  The loop
\* runs over a set of symbols; the trades are listed here in symbol order.
rebalance(portfolio, target_weights, prices, transaction_costs) ==
    LET current_value == portfolio.cash + PositionsValue(portfolio, prices)
        targeted == DOMAIN target_weights \cap DOMAIN prices
        target_positions ==
            [s \in targeted |-> (current_value * target_weights[s])
                                 \div (WeightOne * prices[s])]
        symbols == Held(portfolio) \cup targeted
        current_shares(s) == IF s \in Held(portfolio) THEN portfolio.positions[s] ELSE 0
        target_shares(s) == IF s \in targeted THEN target_positions[s] ELSE 0
        price(s) == IF s \in DOMAIN prices THEN prices[s] ELSE 0
        \* abs(target_shares - current_shares) > 1e-6: more than no thousandth
        traded == {s \in symbols : target_shares(s) # current_shares(s)}
        trade_value(s) == (target_shares(s) - current_shares(s)) * price(s)
        kept == {s \in symbols : IF s \in traded THEN target_shares(s) # 0
                                 ELSE s \in Held(portfolio)}
        tradeOf(s) == [symbol |-> s,
                       shares |-> target_shares(s) - current_shares(s),
                       price |-> price(s),
                       value |-> trade_value(s),
                       cost |-> CostOf(trade_value(s), transaction_costs)]
        ordered == SelectSeq(BtSymbols, LAMBDA s : s \in traded)
    IN  [portfolio |->
            [cash |-> portfolio.cash
                      - SumOver([s \in traded |->
                                    ChargedCost(trade_value(s), transaction_costs)
                                    + trade_value(s)], traded),
             positions |-> [s \in kept |-> IF s \in traded THEN target_shares(s)
                                           ELSE portfolio.positions[s]],
             total_value |-> portfolio.total_value],
         trades |-> [k \in 1..Len(ordered) |-> tradeOf(ordered[k])]]

\* a slip: total_value is the value of the positions, the cash left out
update_value_mut(portfolio, prices) ==
    [portfolio EXCEPT !.total_value = PositionsValue(portfolio, prices)]

update_value(portfolio, prices) ==
    [portfolio EXCEPT !.total_value = portfolio.cash + PositionsValue(portfolio, prices)]

gross_exposure(portfolio) ==
    SumOver([s \in Held(portfolio) |-> Abs(portfolio.positions[s])], Held(portfolio))

net_exposure(portfolio) == SumOver(portfolio.positions, Held(portfolio))

\* cost = net_exposure * (borrow_rate / 252)
apply_borrowing_costs(portfolio, borrow_rate) ==
    IF net_exposure(portfolio) > 0
    THEN [portfolio EXCEPT !.cash =
            portfolio.cash - (net_exposure(portfolio) * borrow_rate)
                              \div (RateOne * TradingDays)]
    ELSE portfolio

\* backtest_params and strategy_config['constraints'] of one run_backtest call
BacktestDefaults ==
    [start_date |-> 1, end_date |-> 3, rebalance_freq |-> "D",
     max_position |-> 50, transaction_costs |-> 10, borrow_costs |-> 200,
     initial_capital |-> 100]

BacktestParams ==
    {BacktestDefaults,
     [BacktestDefaults EXCEPT !.max_position = 600],
     [BacktestDefaults EXCEPT !.start_date = 6, !.end_date = 8,
                              !.rebalance_freq = "W", !.max_position = 1000],
     [BacktestDefaults EXCEPT !.rebalance_freq = "M"],
     [BacktestDefaults EXCEPT !.rebalance_freq = "Q"]}

RunIds == {1, 2}

IdleRun ==
    [pc |-> "idle", params |-> BacktestDefaults, data |-> <<>>,
     rebalance_dates |-> <<>>, i |-> 1, portfolio |-> NewPortfolio(0),
     equity_curve |-> <<>>, positions_history |-> <<>>, trades_history |-> <<>>,
     cancel_requested |-> FALSE, performance |-> <<>>]

\* run_backtest up to the first pass of the loop: load_historical_data,
\* BacktestEngine(...), _get_rebalance_dates (ValueError on an unsupported
\* frequency: the task reports FAILURE and re-raises), Portfolio(...)
StartRun(run, params, g) ==
    LET loaded == load_historical_data(params, g)
    IN  [run |-> IF params.rebalance_freq \in SupportedFreq
                 THEN [run EXCEPT !.pc = "running", !.params = params,
                                  !.data = loaded.data,
                                  !.rebalance_dates = get_rebalance_dates(params),
                                  !.i = 1,
                                  !.portfolio = NewPortfolio(params.initial_capital)]
                 ELSE [run EXCEPT !.pc = "failed", !.params = params,
                                  !.data = loaded.data],
         rng |-> loaded.rng]

\* a slip: every pass rebalances a fresh Portfolio
StepRun_mut(run, g) ==
    LET date == run.rebalance_dates[run.i]
        current_prices == get_prices_at_date(run.data, date)
        target == calculate_target_weights(run.params.max_position, g)
        rebalanced == rebalance(NewPortfolio(run.params.initial_capital), target.weights, current_prices,
                                run.params.transaction_costs)
        valued == update_value(rebalanced.portfolio, current_prices)
        point == [date |-> date, value |-> valued.total_value, cash |-> valued.cash,
                  gross_exposure |-> gross_exposure(valued),
                  net_exposure |-> net_exposure(valued)]
        financed == IF net_exposure(valued) > 0
                    THEN apply_borrowing_costs(valued, run.params.borrow_costs)
                    ELSE valued
    IN  [run |-> [run EXCEPT
                    !.equity_curve = Append(@, point),
                    !.positions_history =
                        Append(@, [date |-> date, positions |-> valued.positions]),
                    !.trades_history = @ \o rebalanced.trades,
                    !.portfolio = financed,
                    !.i = @ + 1],
         rng |-> target.rng]

\* one pass of the loop of BacktestEngine.run_backtest, in the order of the code
StepRun(run, g) ==
    LET date == run.rebalance_dates[run.i]
        current_prices == get_prices_at_date(run.data, date)
        target == calculate_target_weights(run.params.max_position, g)
        rebalanced == rebalance(run.portfolio, target.weights, current_prices,
                                run.params.transaction_costs)
        valued == update_value(rebalanced.portfolio, current_prices)
        point == [date |-> date, value |-> valued.total_value, cash |-> valued.cash,
                  gross_exposure |-> gross_exposure(valued),
                  net_exposure |-> net_exposure(valued)]
        financed == IF net_exposure(valued) > 0
                    THEN apply_borrowing_costs(valued, run.params.borrow_costs)
                    ELSE valued
    IN  [run |-> [run EXCEPT
                    !.equity_curve = Append(@, point),
                    !.positions_history =
                        Append(@, [date |-> date, positions |-> valued.positions]),
                    !.trades_history = @ \o rebalanced.trades,
                    !.portfolio = financed,
                    !.i = @ + 1],
         rng |-> target.rng]

\* calculate_performance_metrics: the integer metrics; it raises on an empty
\* equity curve (no 'value' column), which the task reports as FAILURE
calculate_performance_metrics(run) ==
    [final_value |-> run.equity_curve[Len(run.equity_curve)].value,
     total_turnover |-> SeqSum([k \in 1..Len(run.trades_history) |->
                                    Abs(run.trades_history[k].value)]),
     num_trades |-> Len(run.trades_history)]

\* run_backtest after the loop
FinishRun(run) ==
    IF run.equity_curve = <<>>
    THEN [run EXCEPT !.pc = "failed"]
    ELSE [run EXCEPT !.pc = "done",
                     !.performance = calculate_performance_metrics(run)]

LoopRunning(run) == run.pc = "running" /\ run.i <= Len(run.rebalance_dates)
LoopOver(run) == run.pc = "running" /\ run.i > Len(run.rebalance_dates)

RECURSIVE Drive(_, _)
Drive(run, g) ==
    IF LoopRunning(run)
    THEN LET n == StepRun(run, g) IN Drive(n.run, n.rng)
    ELSE IF LoopOver(run) THEN FinishRun(run) ELSE run

\* the whole task, run from generator state g with nothing in between
run_backtest(params, g) ==
    LET started == StartRun(IdleRun, params, g)
    IN  Drive(started.run, started.rng)

\* what a finished task returns
ResultOf(run) ==
    [equity_curve |-> run.equity_curve,
     positions_history |-> run.positions_history,
     trades_history |-> run.trades_history,
     performance |-> run.performance]

StartBacktest(r, P) ==
    /\ runs[r].pc = "idle"
    /\ \E params \in P :
          LET started == StartRun(runs[r], params, rng)
          IN  /\ runs' = [runs EXCEPT ![r] = started.run]
              /\ rng' = started.rng
    /\ UNCHANGED <<taskVars, caseVars, exceptions, complianceVars, orderVars, rebalanceCase, optimization>>

RebalanceStep(r) ==
    /\ LoopRunning(runs[r])
    /\ LET n == StepRun(runs[r], rng)
       IN  /\ runs' = [runs EXCEPT ![r] = n.run]
           /\ rng' = n.rng
    /\ UNCHANGED <<taskVars, caseVars, exceptions, complianceVars, orderVars, rebalanceCase, optimization>>

FinishBacktest(r) ==
    /\ LoopOver(runs[r])
    /\ runs' = [runs EXCEPT ![r] = FinishRun(runs[r])]
    /\ UNCHANGED <<taskVars, caseVars, exceptions, complianceVars, orderVars, rng, rebalanceCase, optimization>>

\* any other task of the worker drawing from np.random without seeding it
\* (load_portfolio_data, load_current_portfolio, execute_order, ...)
OtherDraw ==
    /\ rng' = RngNext(rng)
    /\ UNCHANGED <<taskVars, caseVars, exceptions, complianceVars, orderVars, runs, rebalanceCase, optimization>>

\* the dispatching layer asks a running backtest to stop
RequestCancel(r) ==
    /\ runs[r].pc = "running"
    /\ ~runs[r].cancel_requested
    /\ runs' = [runs EXCEPT ![r].cancel_requested = TRUE]
    /\ UNCHANGED <<taskVars, caseVars, exceptions, complianceVars, orderVars, rng, rebalanceCase, optimization>>

\* Portfolio.rebalance on its own, and update_value at the same prices after it
PortfolioChoices ==
    {[cash |-> 100000, positions |-> <<>>, total_value |-> 100000],
     [cash |-> 50000, total_value |-> 100000,
      positions |-> [s \in {"SYMBOL_000"} |-> 25000]],
     [cash |-> 0, total_value |-> 100000,
      positions |-> [s \in BtSymbolSet |-> IF s = "SYMBOL_000" THEN 30000 ELSE 10000]],
     [cash |-> 40000, total_value |-> 100000,
      positions |-> [s \in {"SYMBOL_001"} |-> 20000]]}

TargetWeightChoices ==
    {[s \in BtSymbolSet |-> 500],
     [s \in BtSymbolSet |-> IF s = "SYMBOL_000" THEN 1000 ELSE 0],
     [s \in BtSymbolSet |-> IF s = "SYMBOL_000" THEN 300 ELSE 700],
     [s \in {"SYMBOL_001"} |-> 1000],
     [s \in {"SYMBOL_000"} |-> 1000]}

PriceMaps ==
    [BtSymbolSet -> {2, 3}] \cup [{"SYMBOL_000"} -> {2, 3}]

CostRates == {0, 10, 100}

RebalanceIdle == [phase |-> "idle"]

RebalanceCall ==
    /\ rebalanceCase.phase = "idle"
    /\ \E portfolio \in PortfolioChoices, target_weights \in TargetWeightChoices,
          prices \in PriceMaps, transaction_costs \in CostRates :
          LET res == rebalance(portfolio, target_weights, prices, transaction_costs)
          IN  rebalanceCase' =
                [phase |-> "done", before |-> portfolio,
                 target_weights |-> target_weights, prices |-> prices,
                 transaction_costs |-> transaction_costs,
                 after |-> res.portfolio, trades |-> res.trades,
                 valued |-> update_value(res.portfolio, prices)]
    /\ UNCHANGED <<taskVars, caseVars, exceptions, complianceVars, orderVars, rng, runs, optimization>>

----------------------------------------------------------------------------
(* portfolio_optimizer.py.  Weights are in twentieths (OptOne = 1.0), betas in
   hundredths.  cvxpy is not part of the repository: problem.solve() is an
   oracle that reports some status and, with status 'optimal', leaves in
   weights.value some point that meets every constraint of constraints_list. *)

OptOne == 20
\* constraints.get('max_position', 0.05)
DefaultMaxPosition == 1

OptSymbols == <<"ASSET_000", "ASSET_001", "ASSET_002">>

\* the values weights.value may hold: up to SolverSlack outside [0, 1]
SolverSlack == 2
WeightVectors == [1..Len(OptSymbols) -> (0 - SolverSlack)..(OptOne + SolverSlack)]

\* dict.get(key, default)
Get(d, key, default) == IF key \in DOMAIN d THEN d[key] ELSE default

\* n_days of load_market_data
OptDays == 2

\* load_market_data seeds the generator and draws, for each symbol, the returns
\* of all n_days dates and, date by date, a market_cap and a sector; what the
\* model keeps of the panel is where it leaves the generator
load_market_data(g) ==
    [rng |-> RngAdvance(RngSeed(SeedValue), Len(OptSymbols) * 3 * OptDays)]

\* base_return + np.random.normal(0, 0.02), in percent: one draw per symbol
ExpectedReturnChoices == <<6, 8, 10>>
calculate_expected_returns(g) ==
    [expected_returns |->
        [k \in 1..Len(OptSymbols) |->
            ExpectedReturnChoices[(RngAdvance(g, k - 1) % Len(ExpectedReturnChoices)) + 1]],
     rng |-> RngAdvance(g, Len(OptSymbols))]

\* returns_matrix.cov() * 252 on the seeded panel, in ten-thousandths
calculate_covariance_matrix ==
    << <<100, 40, 50>>, <<40, 400, 160>>, <<50, 160, 100>> >>

RECURSIVE SqrtBetween(_, _, _)
\* the largest r in lo..hi with r * r <= x
SqrtBetween(x, lo, hi) ==
    IF lo >= hi THEN lo
    ELSE LET mid == (lo + hi + 1) \div 2
         IN  IF mid * mid <= x THEN SqrtBetween(x, mid, hi)
             ELSE SqrtBetween(x, lo, mid - 1)

\* np.sqrt, to the unit
Sqrt(x) == SqrtBetween(x, 0, 2000)

CorrOne == 100

\* shrinkage_param = 0.3 towards the constant-correlation target
apply_shrinkage(covariance_matrix) ==
    LET n == Len(covariance_matrix)
        std_devs == [k \in 1..n |-> Sqrt(covariance_matrix[k][k])]
        correlation(i, j) == (covariance_matrix[i][j] * CorrOne)
                                \div (std_devs[i] * std_devs[j])
        upper == {<<i, j>> \in (1..n) \X (1..n) : i < j}
        target_correlation ==
            SumOver([p \in upper |-> correlation(p[1], p[2])], upper)
                \div Cardinality(upper)
        target_covariance(i, j) ==
            IF i = j THEN std_devs[i] * std_devs[j]
            ELSE (target_correlation * std_devs[i] * std_devs[j]) \div CorrOne
    IN  [i \in 1..n |-> [j \in 1..n |->
            (7 * covariance_matrix[i][j] + 3 * target_covariance(i, j)) \div 10]]

\* np.random.normal(1.0, 0.3, n_assets): betas fixed by the generator state
MarketBetaChoices == <<70, 100, 130>>
MarketBetas(g) ==
    [k \in 1..Len(OptSymbols) |->
        MarketBetaChoices[(RngAdvance(g, k - 1) % Len(MarketBetaChoices)) + 1]]

Dot(a, w) == SeqSum([k \in 1..Len(w) |-> a[k] * w[k]])

\* a slip: the long-only constraint is missing from constraints_list
mean_variance_constraints_mut(w, constraints, market_betas) ==
    /\ SeqSum(w) = OptOne
    /\ \A k \in 1..Len(w) : w[k] <= Get(constraints, "max_position", DefaultMaxPosition)
    /\ "max_beta" \in DOMAIN constraints
          => Dot(market_betas, w) <= constraints.max_beta * OptOne

\* constraints_list of mean_variance_optimization.  No symbol contains a sector
\* name, so sector_caps adds nothing to it.
mean_variance_constraints(w, constraints, market_betas) ==
    /\ SeqSum(w) = OptOne
    /\ \A k \in 1..Len(w) : w[k] >= 0
    /\ \A k \in 1..Len(w) : w[k] <= Get(constraints, "max_position", DefaultMaxPosition)
    /\ "max_beta" \in DOMAIN constraints
          => Dot(market_betas, w) <= constraints.max_beta * OptOne

\* a slip: the maximum position size is missing from constraints_list
risk_parity_constraints_mut(w, constraints) ==
    /\ SeqSum(w) = OptOne
    /\ \A k \in 1..Len(w) : w[k] >= 0

\* constraints_list of risk_parity_optimization
risk_parity_constraints(w, constraints) ==
    /\ SeqSum(w) = OptOne
    /\ \A k \in 1..Len(w) : w[k] >= 0
    /\ \A k \in 1..Len(w) : w[k] <= Get(constraints, "max_position", DefaultMaxPosition)

\* weights.value under a status other than 'optimal': anything
InaccurateValues ==
    {w \in WeightVectors : \A k \in 1..Len(w) : w[k] \in {0 - SolverSlack, 0, OptOne \div 2}}

\* problem.solve() on a problem whose feasible points are feasible; under
\* "solver_error" it raises instead of setting a status
Solve(feasible) ==
    {[status |-> "optimal", value |-> w] : w \in feasible}
    \cup {[status |-> st, value |-> w] :
             st \in {"optimal_inaccurate", "infeasible", "unbounded", "solver_error"},
             w \in InaccurateValues}

\* the message of the error a solve ends in
SolveError(status) ==
    IF status = "solver_error" THEN <<"SolverError", status>>
    ELSE <<"Optimization failed", status>>

\* weight_vector.T @ covariance_matrix @ weight_vector, cp.quad_form
quad_form(w, covariance_matrix) ==
    SeqSum([i \in 1..Len(w) |->
              SeqSum([j \in 1..Len(w) |-> w[i] * covariance_matrix[i][j] * w[j]])])

\* a slip: an inaccurate solution is accepted as well
WeightsOrRaise_mut(outcome, objective) ==
    IF outcome.status \notin {"optimal", "optimal_inaccurate"}
    THEN [raised |-> TRUE, error |-> SolveError(outcome.status), solver |-> outcome]
    ELSE [raised |-> FALSE, weights |-> outcome.value, solver |-> outcome,
          objective |-> objective]

\* what the methods do with the solver's answer: ValueError naming the status
\* unless it is 'optimal', else weights.value; objective is what the solved
\* problem's own expressions evaluate to at weights.value
WeightsOrRaise(outcome, objective) ==
    IF outcome.status # "optimal"
    THEN [raised |-> TRUE, error |-> SolveError(outcome.status), solver |-> outcome]
    ELSE [raised |-> FALSE, weights |-> outcome.value, solver |-> outcome,
          objective |-> objective]

mean_variance_optimization(expected_returns, covariance_matrix, constraints, market_betas) ==
    {WeightsOrRaise(o, [portfolio_return |-> Dot(expected_returns, o.value),
                        portfolio_volatility |->
                            Sqrt(quad_form(o.value, covariance_matrix))]) :
        o \in Solve({w \in WeightVectors :
                        mean_variance_constraints(w, constraints, market_betas)})}

\* the symbols whose name contains 'Technology': the loader names them ASSET_nnn
tech_symbols == {k \in 1..Len(OptSymbols) : OptSymbols[k] \in {}}

\* mu_bl and sigma_bl of the Black-Litterman formula: every return moves (the
\* viewed symbols' most) and M is added to the covariance
Posterior(expected_returns, covariance_matrix, views) ==
    [mu_bl |-> [k \in 1..Len(expected_returns) |->
                   expected_returns[k] + (IF k \in views THEN 2 ELSE 1)],
     sigma_bl |-> [i \in 1..Len(covariance_matrix) |->
                     [j \in 1..Len(covariance_matrix) |->
                         covariance_matrix[i][j] + (IF i = j THEN 5 ELSE 0)]]]

\* a slip: the posterior estimates are used although there is no view
black_litterman_optimization_mut(expected_returns, covariance_matrix, constraints, market_betas) ==
    LET post == Posterior(expected_returns, covariance_matrix, tech_symbols)
    IN  mean_variance_optimization(post.mu_bl, post.sigma_bl, constraints, market_betas)

\* with a view: mean-variance on the posterior estimates; with none: the
\* fallback to mean-variance on the estimates it was given
black_litterman_optimization(expected_returns, covariance_matrix, constraints, market_betas) ==
    IF tech_symbols # {}
    THEN LET post == Posterior(expected_returns, covariance_matrix, tech_symbols)
         IN  mean_variance_optimization(post.mu_bl, post.sigma_bl,
                                        constraints, market_betas)
    ELSE mean_variance_optimization(expected_returns, covariance_matrix,
                                    constraints, market_betas)

risk_parity_optimization(covariance_matrix, constraints) ==
    {WeightsOrRaise(o, [portfolio_volatility |->
                            Sqrt(quad_form(o.value, covariance_matrix))]) :
        o \in Solve({w \in WeightVectors : risk_parity_constraints(w, constraints)})}

\* a slip: the volatility is computed from the variances alone
calculate_portfolio_metrics_mut(weights, expected_returns, covariance_matrix) ==
    [expected_return |-> Dot(expected_returns, weights),
     volatility |-> Sqrt(SeqSum([k \in 1..Len(weights) |->
                                    weights[k] * covariance_matrix[k][k] * weights[k]])),
     num_positions |-> Cardinality({k \in 1..Len(weights) : weights[k] > 0})]

\* expected_return, volatility and num_positions of calculate_portfolio_metrics
\* (a weight above 0.001 is a weight above 0 at this resolution)
calculate_portfolio_metrics(weights, expected_returns, covariance_matrix) ==
    [expected_return |-> Dot(expected_returns, weights),
     volatility |-> Sqrt(quad_form(weights, covariance_matrix)),
     num_positions |-> Cardinality({k \in 1..Len(weights) : weights[k] > 0})]

\* every symbol falls in the 'Consumer' bucket of the sector check
check_constraints(weights, constraints) ==
    [budget |-> SeqSum(weights) = OptOne,
     long_only |-> \A k \in 1..Len(weights) : weights[k] >= 0,
     max_position |-> \A k \in 1..Len(weights) :
                          weights[k] <= Get(constraints, "max_position", DefaultMaxPosition),
     sector_caps |-> "sector_caps" \in DOMAIN constraints
                        => SeqSum(weights) <= Get(constraints.sector_caps, "Consumer", OptOne)]

OptMethods == {"mean_variance", "black_litterman", "risk_parity", "equal_weight"}
KnownOptMethods == {"mean_variance", "black_litterman", "risk_parity"}

OptConstraints ==
    {<<>>,
     [max_position |-> 10],
     [max_position |-> 20, max_beta |-> 100],
     [max_position |-> 10, shrinkage |-> FALSE],
     [max_position |-> 8, sector_caps |-> [Consumer |-> 10]]}

OptimizationIdle == [phase |-> "idle"]

optimize_portfolio(M, C) ==
    /\ optimization.phase = "idle"
    /\ \E method \in M, constraints \in C :
          LET loaded == load_market_data(rng)
              estimated == calculate_expected_returns(loaded.rng)
              expected_returns == estimated.expected_returns
              covariance_matrix ==
                  IF Get(constraints, "shrinkage", TRUE)
                  THEN apply_shrinkage(calculate_covariance_matrix)
                  ELSE calculate_covariance_matrix
              market_betas == MarketBetas(estimated.rng)
              \* the betas are drawn by the mean-variance solve under max_beta
              draws == IF method \in {"mean_variance", "black_litterman"}
                          /\ "max_beta" \in DOMAIN constraints
                       THEN Len(OptSymbols) ELSE 0
              call == [phase |-> "done", method |-> method, constraints |-> constraints,
                       expected_returns |-> expected_returns,
                       covariance_matrix |-> covariance_matrix,
                       market_betas |-> market_betas]
          IN  /\ rng' = RngAdvance(estimated.rng, draws)
              /\ \E res \in (IF method = "mean_variance"
                                THEN mean_variance_optimization(
                                        expected_returns, covariance_matrix,
                                        constraints, market_betas)
                              ELSE IF method = "black_litterman"
                                THEN black_litterman_optimization(
                                        expected_returns, covariance_matrix,
                                        constraints, market_betas)
                              ELSE IF method = "risk_parity"
                                THEN risk_parity_optimization(covariance_matrix,
                                                              constraints)
                              ELSE {[raised |-> TRUE,
                                     error |-> <<"Unknown optimization method", method>>,
                                     solver |-> [status |-> "not called"]]}) :
                    optimization' =
                       IF res.raised
                       THEN [status |-> "FAILURE", error |-> res.error,
                             returned |-> res] @@ call
                       ELSE [status |-> "success", weights |-> res.weights,
                             metrics |-> calculate_portfolio_metrics(
                                            res.weights, expected_returns,
                                            covariance_matrix),
                             constraints_satisfied |->
                                 check_constraints(res.weights, constraints),
                             returned |-> res] @@ call
    /\ UNCHANGED <<taskVars, caseVars, exceptions, complianceVars, orderVars, runs, rebalanceCase>>

----------------------------------------------------------------------------
\* the task run_pre_trade_checks, its arguments drawn from W and R and the
\* draws of load_portfolio_data from D
run_pre_trade_checks(W, D, R) ==
    /\ \E w \in W, d \in D, rid \in R :
          LET res == PreTradeResult(w, d, rid)
          IN  /\ compliance' = [phase |-> "done", portfolio_weights |-> w,
                                ruleset_id |-> rid, result |-> res]
              /\ verdicts' = verdicts \cup
                    {[portfolio_weights |-> w, overall_status |-> res.overall_status]}
    /\ UNCHANGED <<taskVars, caseVars, exceptions, statusCase, orderVars, backtestVars>>

\* calculate_compliance_status on its own, on any list of statuses in any order
CalculateStatus ==
    /\ \E s \in SeqsUpTo(Statuses, MaxChecks) :
            statusCase' = [phase |-> "done", statuses |-> s,
                           verdict |-> calculate_compliance_status(s)]
    /\ UNCHANGED <<taskVars, caseVars, exceptions, compliance, verdicts, orderVars, backtestVars>>

\* no task has been called
----------------------------------------------------------------------------
(* factor_engine.py.  Scores are in ten-thousandths (ScoreUnit = 1.0) and
   percentiles in percent, so that the interpolated quantiles of a series of
   whole scores, and of that series winsorized once, are exact. *)

ScoreUnit == 100 * 100
PercentOne == 100
\* config.get('winsorize_percentile', 0.05)
DefaultWinsorize == 5

RECURSIVE SortValues(_)
\* the values of a series, ascending, repeated values kept
SortValues(q) ==
    IF q = <<>> THEN <<>>
    ELSE LET i == CHOOSE k \in 1..Len(q) : \A j \in 1..Len(q) : q[k] <= q[j]
         IN  <<q[i]>> \o SortValues([k \in 1..(Len(q) - 1) |-> IF k < i THEN q[k] ELSE q[k + 1]])

\* Series.quantile(q): linear interpolation between the two order statistics
\* around position (n - 1) * q
quantile(series, q) ==
    LET sorted == SortValues(series)
        pos == (Len(series) - 1) * q
        idx == pos \div PercentOne
        rem == pos % PercentOne
        lo == sorted[idx + 1]
        hi == IF idx + 2 <= Len(series) THEN sorted[idx + 2] ELSE lo
    IN  lo + ((hi - lo) * rem) \div PercentOne

\* Series.clip(lower=lower, upper=upper)
clip(series, lower, upper) ==
    [k \in 1..Len(series) |-> Min(Max(series[k], lower), upper)]

winsorize_series(series, percentile) ==
    LET lower == quantile(series, percentile)
        upper == quantile(series, PercentOne - percentile)
    IN  clip(series, lower, upper)

\* n_symbols of load_market_data
FactorN == 4
\* load_market_data draws, for each symbol, the returns and eight columns a date
FactorDays == 2
FactorColumns == 1 + 8

\* the scores the panel seeded by load_market_data gives, one per symbol
PanelScores ==
    [momentum |-> <<-20000, 10000, 0, 50000>>,
     value |-> <<-120000, -90000, -150000, -100000>>,
     quality |-> <<-30000, -40000, -20000, -50000>>,
     size |-> <<-200000, -190000, -210000, -200000>>]
PanelFactors == DOMAIN PanelScores
\* np.random.normal(mean, 0.2, n): a score fixed by the generator state
DrawnScoreChoices == <<-10000, 10000, 30000, 60000>>
DrawnFactors == {"growth", "esg"}
DrawnScores(g) ==
    [k \in 1..FactorN |->
        DrawnScoreChoices[(RngAdvance(g, k - 1) % Len(DrawnScoreChoices)) + 1]]

\* a raise of the factor engine: the exception and the value its message names
FactorRaise(exception, value, g) ==
    [raised |-> TRUE, error |-> <<exception, value>>, rng |-> g]
FactorSeries(series, config, g) ==
    [raised |-> FALSE,
     signal |-> winsorize_series(series,
                                 Get(config, "winsorize_percentile", DefaultWinsorize)),
     rng |-> g]

\* a slip: a name that is no factor is computed as momentum
compute_factor_mut(factor_name, config, g) ==
    IF factor_name \in PanelFactors
    THEN FactorSeries(PanelScores[factor_name], config, g)
    ELSE IF factor_name \in DrawnFactors
    THEN FactorSeries(DrawnScores(g), config, RngAdvance(g, FactorN))
    ELSE IF factor_name = "low_vol"
    THEN FactorRaise("AttributeError", "quantile", g)
    ELSE FactorSeries(PanelScores["momentum"], config, g)

\* compute_low_vol_factor hands winsorize_series the scalar volatility.iloc[-1],
\* which has no quantile
compute_factor(factor_name, config, g) ==
    IF factor_name \in PanelFactors
    THEN FactorSeries(PanelScores[factor_name], config, g)
    ELSE IF factor_name \in DrawnFactors
    THEN FactorSeries(DrawnScores(g), config, RngAdvance(g, FactorN))
    ELSE IF factor_name = "low_vol"
    THEN FactorRaise("AttributeError", "quantile", g)
    ELSE FactorRaise("Unknown factor", factor_name, g)

RECURSIVE ComputeFactors(_, _)
\* the loop over recipe['factors'].items(): the first raise ends it
ComputeFactors(factors, g) ==
    IF factors = <<>> THEN [raised |-> FALSE, factor_signals |-> <<>>, rng |-> g]
    ELSE LET first == compute_factor(Head(factors).name, Head(factors).config, g)
         IN  IF first.raised THEN first
             ELSE LET rest == ComputeFactors(Tail(factors), first.rng)
                  IN  IF rest.raised THEN rest
                      ELSE [raised |-> FALSE,
                            factor_signals |->
                                <<[name |-> Head(factors).name, signal |-> first.signal]>>
                                \o rest.factor_signals,
                            rng |-> rest.rng]

\* the steps apply_signal_pipeline applies to each signal, in order; the signal
\* is kept as its winsorized scores and the steps applied to them
PipelineSteps(pipeline) ==
    (IF Get(pipeline, "zscore", TRUE) THEN <<"zscore">> ELSE <<>>)
    \o (IF Get(pipeline, "sector_neutralize", TRUE) THEN <<"sector_neutralize">> ELSE <<>>)
    \o (IF Get(pipeline, "size_neutralize", TRUE) THEN <<"size_neutralize">> ELSE <<>>)
    \o (IF Get(pipeline, "decay", 0) > 0 THEN <<"decay">> ELSE <<>>)

\* neutralize_by_sector and neutralize_by_size each draw once per symbol
PipelineDraws(pipeline) ==
    FactorN * ((IF Get(pipeline, "sector_neutralize", TRUE) THEN 1 ELSE 0)
               + (IF Get(pipeline, "size_neutralize", TRUE) THEN 1 ELSE 0))

apply_signal_pipeline(signals, pipeline, g) ==
    [processed_signals |->
        [k \in 1..Len(signals) |->
            [name |-> signals[k].name, signal |-> signals[k].signal,
             steps |-> PipelineSteps(pipeline)]],
     rng |-> RngAdvance(g, Len(signals) * PipelineDraws(pipeline))]

\* the combined signal is kept as the method and the weighted signals it combines
combine_signals(signals, combination) ==
    LET method == Get(combination, "method", "weighted_sum")
        weights == Get(combination, "weights", <<>>)
    IN  IF method = "weighted_sum"
        THEN IF signals = <<>>
             THEN [raised |-> TRUE, error |-> <<"IndexError", "list index out of range">>]
             ELSE [raised |-> FALSE,
                   combined |-> [method |-> method,
                                 terms |-> [k \in 1..Len(signals) |->
                                               [weight |-> Get(weights, signals[k].name,
                                                               ScoreUnit),
                                                name |-> signals[k].name]]]]
        ELSE IF method = "pca"
        THEN IF signals = <<>>
             THEN [raised |-> TRUE, error |-> <<"ValueError", "empty signal matrix">>]
             ELSE [raised |-> FALSE,
                   combined |-> [method |-> method,
                                 terms |-> [k \in 1..Len(signals) |->
                                               [name |-> signals[k].name]]]]
        ELSE [raised |-> TRUE, error |-> <<"Unknown combination method", method>>]

\* calculate_signal_diagnostics draws the simulated future returns and turnover
DiagnosticDraws == FactorN + 1

FactorNames == {"value", "esg", "low_vol", "momentum", "carry"}
FactorConfigs == {<<>>, [winsorize_percentile |-> 25]}
\* recipe['factors']: up to MaxFactors distinct names, in dict order
MaxFactors == 2
FactorLists ==
    {f \in SeqsUpTo([name : FactorNames, config : FactorConfigs], MaxFactors) :
        /\ \A i, j \in 1..Len(f) : i # j => f[i].name # f[j].name
        /\ \A i \in 1..Len(f) : i > 1 => f[i].config = <<>>}
Pipelines == {<<>>, [zscore |-> FALSE, sector_neutralize |-> FALSE, decay |-> 1]}
Combinations == {<<>>, [method |-> "pca"], [method |-> "median"],
                 [method |-> "weighted_sum", weights |-> [value |-> 2 * ScoreUnit]]}
Recipes == [factors : FactorLists, pipeline : Pipelines, combination : Combinations]

SignalIdle == [phase |-> "idle"]

\* the task compute_signals
compute_signals(R) ==
    /\ signalCase.phase = "idle"
    /\ \E recipe \in R :
          LET loaded == RngAdvance(RngSeed(SeedValue), FactorN * FactorColumns * FactorDays)
              computed == ComputeFactors(recipe.factors, loaded)
              processed == apply_signal_pipeline(computed.factor_signals, recipe.pipeline,
                                                 computed.rng)
              combined == combine_signals(processed.processed_signals, recipe.combination)
              call == [phase |-> "done", recipe |-> recipe]
          IN  IF computed.raised
              THEN /\ signalCase' = [status |-> "FAILURE", error |-> computed.error,
                                     stage |-> "compute_factor"] @@ call
                   /\ rng' = computed.rng
              ELSE IF combined.raised
              THEN /\ signalCase' = [status |-> "FAILURE", error |-> combined.error,
                                     stage |-> "combine_signals"] @@ call
                   /\ rng' = processed.rng
              ELSE /\ signalCase' = [status |-> "success",
                                     signals |-> processed.processed_signals,
                                     combined_signal |-> combined.combined,
                                     diagnostics |-> "computed"] @@ call
                   /\ rng' = RngAdvance(processed.rng, DiagnosticDraws)
    /\ UNCHANGED <<taskVars, winsorCase, riskCase, positionCase, sliceCase, exceptions,
                   complianceVars, orderVars, runs, rebalanceCase, optimization>>

SeriesValues == {0, ScoreUnit, 2 * ScoreUnit, 4 * ScoreUnit}
\* the longest bare series winsorize_series is applied to
MaxSeries == 4
\* percentiles 0 <= p < 0.5, in percent
PercentileChoices == {0, 5, 10, 25, 40}

WinsorIdle == [phase |-> "idle"]

\* winsorize_series on its own, and again on its own result
WinsorizeCall ==
    /\ winsorCase.phase = "idle"
    /\ \E series \in SeqsUpTo(SeriesValues, MaxSeries) \ {<<>>},
          percentile \in PercentileChoices :
          LET once == winsorize_series(series, percentile)
          IN  winsorCase' = [phase |-> "done", series |-> series,
                             percentile |-> percentile, once |-> once,
                             twice |-> winsorize_series(once, percentile)]
    /\ UNCHANGED <<taskVars, signalCase, riskCase, positionCase, sliceCase, exceptions,
                   complianceVars, orderVars, backtestVars>>

----------------------------------------------------------------------------
(* risk_engine.py.  Returns are in units of 1 / 1,200,000 (ReturnUnit = 1%), so
   that the interpolated percentile and the mean of up to MaxReturns returns are
   exact; confidences are in percent. *)

ReturnUnit == 12 * 1000

\* np.percentile(returns, (1 - confidence) * 100): linear interpolation
calculate_var_historical(returns, confidence) ==
    quantile(returns, PercentOne - confidence)

\* returns[returns <= var_threshold]
tail_returns(returns, confidence) ==
    SelectSeq(returns, LAMBDA x : x <= quantile(returns, PercentOne - confidence))

calculate_es_historical(returns, confidence) ==
    LET tail == tail_returns(returns, confidence)
    IN  SeqSum(tail) \div Len(tail)

ReturnValues == {-2 * ReturnUnit, -ReturnUnit, 0, ReturnUnit}
\* the longest bare return series
MaxReturns == 4
\* risk_params.get('var_confidence', 0.95)
DefaultConfidence == 95
ConfidenceChoices == {DefaultConfidence, 99}

RiskIdle == [phase |-> "idle"]

\* calculate_var_historical and calculate_es_historical on the same series
HistoricalRiskCall ==
    /\ riskCase.phase = "idle"
    /\ \E returns \in SeqsUpTo(ReturnValues, MaxReturns) \ {<<>>},
          confidence \in ConfidenceChoices :
          riskCase' = [phase |-> "done", returns |-> returns, confidence |-> confidence,
                       var_historical |-> calculate_var_historical(returns, confidence),
                       tail |-> tail_returns(returns, confidence),
                       es_historical |-> calculate_es_historical(returns, confidence)]
    /\ UNCHANGED <<taskVars, signalCase, winsorCase, positionCase, sliceCase, exceptions,
                   complianceVars, orderVars, backtestVars>>

----------------------------------------------------------------------------
(* compliance_engine.py: check_position_limits on a caller's ruleset, and
   request_exception *)

PositionSymbols == {"A", "B", "C"}
PositionWeightChoices == {-4000, 5, 2000, 4000}
\* max_single_position of the caller's ruleset, in basis points
MaxSingleChoices == {500, 3000, 5000}

\* the part of portfolio_data check_position_limits reads
PositionData(weights) == [positions |-> [s \in DOMAIN weights |-> [weight |-> weights[s]]]]

\* a ruleset of load_ruleset with another max_single_position
WithMaxSingle(ruleset, max_single) ==
    [ruleset EXCEPT !.position_limits.max_single_position = max_single]

PositionIdle == [phase |-> "idle"]

\* check_position_limits on its own, and the verdict of that one check
PositionLimitsCall ==
    /\ positionCase.phase = "idle"
    /\ \E w \in [PositionSymbols -> PositionWeightChoices],
          rid \in DOMAIN Rulesets, max_single \in MaxSingleChoices :
          LET ruleset == WithMaxSingle(Rulesets[rid], max_single)
              result == check_position_limits(PositionData(w), ruleset)
          IN  positionCase' = [phase |-> "done", weights |-> w, ruleset |-> ruleset,
                               result |-> result,
                               verdict |-> calculate_compliance_status(<<result.status>>)]
    /\ UNCHANGED <<taskVars, signalCase, winsorCase, riskCase, sliceCase, exceptions,
                   complianceVars, orderVars, backtestVars>>

\* a slip: a request with a justification comes back approved
exception_request_mut(violation_id, justification, user_id, now) ==
    [id |-> <<"exc", now>>, violation_id |-> violation_id,
     justification |-> justification, user_id |-> user_id,
     status |-> IF justification = "" THEN "PENDING" ELSE "APPROVED",
     timestamp |-> now, reviewed_by |-> "None", reviewed_at |-> "None",
     approved |-> IF justification = "" THEN "None" ELSE "True"]

\* the exception_request dict of request_exception; now is datetime.now()
exception_request(violation_id, justification, user_id, now) ==
    [id |-> <<"exc", now>>, violation_id |-> violation_id,
     justification |-> justification, user_id |-> user_id,
     status |-> "PENDING", timestamp |-> now,
     reviewed_by |-> "None", reviewed_at |-> "None", approved |-> "None"]

ViolationIds == {"max_single_position:A", "restricted_security:B"}
Justifications == {"", "hedged elsewhere"}
UserIds == {"pm_1"}
\* the most exception requests of a behaviour, and the latest clock reading
MaxExceptions == 2
MaxClock == 2

\* the task request_exception
request_exception ==
    /\ Cardinality(exceptions) < MaxExceptions
    /\ \E violation_id \in ViolationIds, justification \in Justifications,
          user_id \in UserIds, now \in 1..MaxClock :
          exceptions' = exceptions \cup
              {[status |-> "success",
                exception_request |->
                    exception_request(violation_id, justification, user_id, now),
                message |-> "Exception request submitted for review"]}
    /\ UNCHANGED <<taskVars, caseVars, complianceVars, orderVars, backtestVars>>

----------------------------------------------------------------------------
(* order_engine.py: the slice generators on bare required trades *)

TradeSymbols == {"A", "B"}
TradeChoices == {1200, 100000, -60000}
RequiredTrades == UNION {[S -> TradeChoices] : S \in SUBSET TradeSymbols}
\* end_time - start_time and slice_duration, in minutes
SliceOrderParams ==
    {[duration |-> 240, slice_duration |-> 60], [duration |-> 360, slice_duration |-> 30],
     [duration |-> 100, slice_duration |-> 30], [duration |-> 180, slice_duration |-> 60]}

SliceIdle == [phase |-> "idle"]

TwapSlicesCall ==
    /\ sliceCase.phase = "idle"
    /\ \E required_trades \in RequiredTrades, order_params \in SliceOrderParams :
          sliceCase' = [phase |-> "done", kind |-> "TWAP",
                        required_trades |-> required_trades,
                        order_params |-> order_params,
                        slices |-> generate_twap_slices(required_trades, order_params)]
    /\ UNCHANGED <<taskVars, signalCase, winsorCase, riskCase, positionCase, exceptions,
                   complianceVars, orderVars, backtestVars>>

VwapSlicesCall ==
    /\ sliceCase.phase = "idle"
    /\ \E required_trades \in RequiredTrades, order_params \in SliceOrderParams :
          sliceCase' = [phase |-> "done", kind |-> "VWAP",
                        required_trades |-> required_trades,
                        order_params |-> order_params,
                        slices |-> generate_vwap_slices(required_trades, order_params)]
    /\ UNCHANGED <<taskVars, signalCase, winsorCase, riskCase, positionCase, exceptions,
                   complianceVars, orderVars, backtestVars>>

----------------------------------------------------------------------------
(* backtester.py: BacktestEngine._apply_constraints on bare weights *)

\* non-negative input weights, in thousandths, not all zero (weights.sum() of an
\* all-zero vector is 0 and the division gives nan)
ConstraintWeightChoices == {0, 200, 300, 700}
ConstraintWeights ==
    {w \in [1..3 -> ConstraintWeightChoices] : \E k \in 1..3 : w[k] > 0}
\* constraints.get('max_position', 0.05), in thousandths
ConstraintCaps == {50, 300, 500, 1000}

ConstraintIdle == [phase |-> "idle"]

ApplyConstraintsCall ==
    /\ constraintCase.phase = "idle"
    /\ \E weights \in ConstraintWeights, max_position \in ConstraintCaps :
          constraintCase' = [phase |-> "done", weights |-> weights,
                             max_position |-> max_position,
                             result |-> apply_constraints(weights, max_position)]
    /\ UNCHANGED <<execution, discovery, caseVars, exceptions, complianceVars,
                   orderVars, backtestVars>>

----------------------------------------------------------------------------
(* execution_engine.py: execute_order.  Quantities are whole shares. *)

\* np.random.uniform(100, 500): a fill size fixed by the generator state
FillChoices == <<100, 250, 499, 130>>
FillDraw(g) == FillChoices[(g % Len(FillChoices)) + 1]
\* the upper end of the uniform draw
MaxFill == 500
\* execution_params.get('quantity', 1000)
DefaultQuantity == 1000
QuantityChoices == {100, 450, DefaultQuantity}

\* a slip: the fill is the draw, whatever is left
fill_size_mut(remaining_quantity, draw) == draw

\* min(remaining_quantity, np.random.uniform(100, 500))
fill_size(remaining_quantity, draw) == Min(remaining_quantity, draw)

ExecutionIdle == [pc |-> "idle"]

\* execute_order up to the fill loop
execute_order_start ==
    /\ execution.pc = "idle"
    /\ \E quantity \in QuantityChoices :
          execution' = [pc |-> "filling", total_quantity |-> quantity,
                        remaining_quantity |-> quantity, fills |-> <<>>,
                        updates |-> <<>>]
    /\ UNCHANGED <<constraintCase, discovery, caseVars, exceptions, complianceVars,
                   orderVars, backtestVars>>

\* one pass of the loop: the fill size and the fill price are drawn
execute_order_fill ==
    /\ execution.pc = "filling"
    /\ execution.remaining_quantity > 0
    /\ LET fill == fill_size(execution.remaining_quantity, FillDraw(rng))
       IN  execution' = [execution EXCEPT
                            !.fills = Append(@, fill),
                            !.remaining_quantity = @ - fill]
    /\ rng' = RngAdvance(rng, 2)
    /\ UNCHANGED <<constraintCase, discovery, caseVars, exceptions, complianceVars,
                   orderVars, runs, rebalanceCase, optimization>>

\* after the loop: update_order_status.delay(order_id, 'FILLED', ...) and return
execute_order_finish ==
    /\ execution.pc = "filling"
    /\ ~(execution.remaining_quantity > 0)
    /\ execution' = [execution EXCEPT !.pc = "done", !.updates = Append(@, "FILLED")]
    /\ UNCHANGED <<constraintCase, discovery, caseVars, exceptions, complianceVars,
                   orderVars, backtestVars>>

----------------------------------------------------------------------------
(* order_engine.py: execute_order_slice.  Quantities are whole shares,
   commissions thousandths of a dollar. *)

\* np.random.uniform(50, 200): a price fixed by the generator state
ExecPriceChoices == <<50, 100, 125, 200>>
ExecPrice(g) == ExecPriceChoices[(g % Len(ExecPriceChoices)) + 1]
\* load_market_data draws a price, a volume, a spread and a market cap a symbol
MarketColumns == 4
\* commission = abs(trade_value) * 0.001, in thousandths of a dollar per dollar
CommissionRate == 1

\* the place of a symbol in the universe load_market_data runs through
SymbolIndex(s) == IF s = "A" THEN 0 ELSE 1

\* load_order as the lookup of a stored order that the code leaves to a
\* database: the order create_*_order returned, as the calls since have left
\* it; with it comes market_data, drawn afresh by load_market_data
load_order(stored, order_id, g) ==
    [order |-> CHOOSE o \in stored : o.order_id = order_id,
     market_data |->
        [prices |-> [s \in Symbols |->
                        ExecPrice(RngAdvance(g, MarketColumns * SymbolIndex(s)))]],
     rng |-> RngAdvance(g, MarketColumns * Cardinality(Symbols))]

simulate_execution(slice_data, market_data) ==
    LET priced == DOMAIN slice_data.trades \cap DOMAIN market_data.prices
        total_quantity ==
            SumOver([s \in priced |->
                        Abs(QuoT(slice_data.trades[s], market_data.prices[s]))], priced)
        total_value == SumOver([s \in priced |-> Abs(slice_data.trades[s])], priced)
        total_commission ==
            SumOver([s \in priced |-> Abs(slice_data.trades[s]) * CommissionRate], priced)
    IN  [quantity |-> total_quantity,
         avg_price |-> IF total_quantity > 0 THEN total_value \div total_quantity ELSE 0,
         commission |-> total_commission]

update_order_summary(summary, execution_result) ==
    LET executed_slices == summary.executed_slices + 1
        total_executed == summary.total_executed + execution_result.quantity
    IN  [summary EXCEPT
            !.executed_slices = executed_slices,
            !.total_executed = total_executed,
            !.total_commission = @ + execution_result.commission,
            !.avg_execution_price =
                IF total_executed > 0
                THEN (@ * (executed_slices - 1) + execution_result.avg_price)
                        \div executed_slices
                ELSE @]

\* the body of execute_order_slice on the loaded order: nothing reads the
\* slice's status before it is executed
ExecuteSlice(order, k, market_data) ==
    LET execution_result == simulate_execution(order.slices[k], market_data)
        done == [status |-> "EXECUTED",
                 execution_price |-> execution_result.avg_price,
                 executed_quantity |-> execution_result.quantity,
                 commission |-> execution_result.commission]
                @@ order.slices[k]
    IN  [order EXCEPT
            !.slices = [i \in 1..Len(order.slices) |->
                            IF i = k THEN done ELSE order.slices[i]],
            !.execution_summary = update_order_summary(@, execution_result)]

\* the most execute_order_slice calls on one order
MaxExecutions == 3

\* the task execute_order_slice: next(...) raises StopIteration on a slice_id
\* the order does not hold, and the task fails
execute_order_slice ==
    /\ \E o \in orders :
       \E k \in 1..(o.execution_summary.total_slices + 1) :
          /\ o.execution_summary.executed_slices < MaxExecutions
          /\ LET loaded == load_order(orders, o.order_id, rng)
             IN  /\ rng' = loaded.rng
                 /\ orders' = IF k \in 1..Len(loaded.order.slices)
                              THEN (orders \ {o})
                                   \cup {ExecuteSlice(loaded.order, k, loaded.market_data)}
                              ELSE orders
    /\ UNCHANGED <<taskVars, caseVars, exceptions, complianceVars, routed, runs,
                   rebalanceCase, optimization>>

----------------------------------------------------------------------------
(* ai_pipeline.py: discover_strategies.  What a discover_* helper's body does
   on the given market data is an input: it raises, finds nothing, or finds a
   strategy with a composite score. *)

Helpers == <<"momentum", "mean_reversion", "pairs_trading", "statistical_arbitrage",
             "volume">>
ScoreChoices == {1, 2}
HelperOutcomes ==
    {[kind |-> "raises", composite_score |-> 0],
     [kind |-> "nothing", composite_score |-> 0]}
    \cup {[kind |-> "strategy", composite_score |-> c] : c \in ScoreChoices}
\* discover_statistical_arbitrage_strategy returns None before anything else
HelperInputs ==
    {h \in [1..Len(Helpers) -> HelperOutcomes] : h[4].kind = "nothing"}

\* a discover_* helper: except Exception: log and return None
discover_helper(outcome) ==
    IF outcome.kind = "strategy"
    THEN [found |-> TRUE, composite_score |-> outcome.composite_score]
    ELSE [found |-> FALSE, composite_score |-> 0]

RECURSIVE rank_strategies(_)
\* sorted(strategies, key=composite_score, reverse=True): stable
rank_strategies(strategies) ==
    IF strategies = <<>> THEN <<>>
    ELSE LET i == CHOOSE k \in 1..Len(strategies) :
                    /\ \A j \in 1..Len(strategies) :
                            strategies[j].composite_score <= strategies[k].composite_score
                    /\ \A j \in 1..(k - 1) :
                            strategies[j].composite_score < strategies[k].composite_score
         IN  <<strategies[i]>>
             \o rank_strategies(SelectSeq(strategies, LAMBDA s : s # strategies[i]))

DiscoveryIdle == [phase |-> "idle"]

\* the task discover_strategies
discover_strategies ==
    /\ discovery.phase = "idle"
    /\ \E outcomes \in HelperInputs :
          LET found == SelectSeq([k \in 1..Len(Helpers) |->
                                     [helper |-> Helpers[k]]
                                     @@ discover_helper(outcomes[k])],
                                 LAMBDA s : s.found)
              ranked == rank_strategies(found)
          IN  discovery' = [phase |-> "done", outcomes |-> outcomes,
                            status |-> "success",
                            discovered_strategies |-> ranked,
                            total_strategies |-> Len(ranked)]
    /\ UNCHANGED <<constraintCase, execution, caseVars, exceptions, complianceVars,
                   orderVars, backtestVars>>

Init ==
    /\ compliance = ComplianceIdle
    /\ statusCase = StatusCaseIdle
    /\ verdicts = {}
    /\ orders = {}
    /\ routed = {}
    /\ rng = 0
    /\ runs = [r \in RunIds |-> IdleRun]
    /\ rebalanceCase = RebalanceIdle
    /\ optimization = OptimizationIdle
    /\ signalCase = SignalIdle
    /\ winsorCase = WinsorIdle
    /\ riskCase = RiskIdle
    /\ positionCase = PositionIdle
    /\ sliceCase = SliceIdle
    /\ exceptions = {}
    /\ constraintCase = ConstraintIdle
    /\ execution = ExecutionIdle
    /\ discovery = DiscoveryIdle

\* One call is modelled per behaviour: the tasks are stateless functions of
\* their arguments and of the loaders' draws.
NoCallYet == compliance.phase = "idle" /\ statusCase.phase = "idle"

NextCompliance ==
    \/ NoCallYet /\ run_pre_trade_checks([Symbols -> WeightChoices],
                                          ComplianceDraws, RulesetIds)
    \/ NoCallYet /\ CalculateStatus

SpecCompliance == Init /\ [][NextCompliance]_vars

----------------------------------------------------------------------------
(* C1, C2 *)

StatusSet(statuses) == {statuses[i] : i \in 1..Len(statuses)}

VerdictMatches(statuses, verdict) ==
    /\ (verdict = "BLOCK") <=> ("FAIL" \in StatusSet(statuses))
    /\ (verdict = "REVIEW") <=> ("FAIL" \notin StatusSet(statuses)
                                  /\ "WARNING" \in StatusSet(statuses))
    /\ (verdict = "OK") <=> (StatusSet(statuses) \subseteq {"PASS"})

\* C1: the verdict of calculate_compliance_status depends only on the set of
\* sub-check statuses, never on their order: BLOCK iff some status is FAIL,
\* REVIEW iff none is FAIL and some is WARNING, OK iff all are PASS.  Checked
\* on every status list up to MaxChecks long, in every order, and on the twelve
\* results of every run_pre_trade_checks call.
C1_StatusAggregation ==
    /\ statusCase.phase = "done"
          => VerdictMatches(statusCase.statuses, statusCase.verdict)
    /\ compliance.phase = "done"
          => VerdictMatches(StatusesOf(compliance.result.check_results),
                            compliance.result.overall_status)

\* a WARNING stored before a FAIL still gives BLOCK
C1_Witness ==
    /\ statusCase.phase = "done"
    /\ statusCase.statuses = <<"WARNING", "PASS", "FAIL">>
    /\ statusCase.verdict = "BLOCK"

ExceedsMaxSingle(w, rid) ==
    \E s \in DOMAIN w :
        Abs(w[s]) > load_ruleset(rid).position_limits.max_single_position

\* C2: whenever some position of the checked portfolio has |weight| above the
\* ruleset's max_single_position, run_pre_trade_checks returns BLOCK, whatever
\* the other eleven checks found.
C2_OversizedBlocks ==
    (compliance.phase = "done"
     /\ ExceedsMaxSingle(compliance.portfolio_weights, compliance.ruleset_id))
        => compliance.result.overall_status = "BLOCK"

\* an oversized position is the only failing check, and the verdict is BLOCK
C2_Witness ==
    /\ compliance.phase = "done"
    /\ ExceedsMaxSingle(compliance.portfolio_weights, compliance.ruleset_id)
    /\ \A i \in 2..Len(compliance.result.check_results) :
            compliance.result.check_results[i].status # "FAIL"
    /\ compliance.result.overall_status = "BLOCK"

----------------------------------------------------------------------------
(* The gate: compliance checks and order creation called in any order *)

GateWeights == {[s \in Symbols |-> 300], [s \in Symbols |-> IF s = "A" THEN 900 ELSE 300]}
CleanDraw == [sector |-> "Technology", country |-> "US", esg_score |-> 80,
              adv_ratio |-> 50, beta |-> 100, is_restricted |-> FALSE,
              is_watchlist |-> FALSE]
GateDraws == {[s \in Symbols |-> CleanDraw],
              [s \in Symbols |-> [CleanDraw EXCEPT !.is_watchlist = (s = "B")]]}
GateOrderParams == {[duration |-> 240, slice_duration |-> 60]}

NextGate ==
    \/ run_pre_trade_checks(GateWeights, GateDraws, RulesetIds)
    \/ create_vwap_order(GateWeights, GateOrderParams)
    \/ create_twap_order(GateWeights, GateOrderParams)
    \/ route_order

SpecGate == Init /\ [][NextGate]_vars

OnlyBlocked(w) ==
    /\ \E v \in verdicts : v.portfolio_weights = w /\ v.overall_status = "BLOCK"
    /\ \A v \in verdicts : v.portfolio_weights = w => v.overall_status = "BLOCK"

\* C3: the compliance gate is a hard gate: weights whose every verdict so far is
\* BLOCK never become the target weights of a newly created order.
C3_HardGate ==
    [][\A o \in orders' \ orders : ~OnlyBlocked(o.target_weights)]_vars

----------------------------------------------------------------------------
(* Portfolio.rebalance: C5 *)

NextPortfolio == RebalanceCall

SpecPortfolio == Init /\ [][NextPortfolio]_vars

TradesValue(trades) == SeqSum([k \in 1..Len(trades) |-> trades[k].value])
TradesCost(trades) == SeqSum([k \in 1..Len(trades) |-> trades[k].cost])

\* C5: every trade of a rebalance, a buy or a sell, has abs(trade value) times
\* the cost rate deducted from cash: cash falls by the signed value of the trades
\* plus the cost of every one of them.
C5_CostBothDirections ==
    rebalanceCase.phase = "done"
        => rebalanceCase.before.cash - rebalanceCase.after.cash
              = TradesValue(rebalanceCase.trades) + TradesCost(rebalanceCase.trades)

----------------------------------------------------------------------------
(* One worker running its tasks one after another: C4, C6, C8 *)

WorkerFree == \A r \in RunIds : runs[r].pc # "running"

NextBacktest ==
    \/ \E r \in RunIds : WorkerFree /\ StartBacktest(r, BacktestParams)
    \/ \E r \in RunIds : RebalanceStep(r)
    \/ \E r \in RunIds : FinishBacktest(r)
    \/ \E r \in RunIds : RequestCancel(r)
    \/ WorkerFree /\ OtherDraw

SpecBacktest == Init /\ [][NextBacktest]_vars

Last(q) == q[Len(q)]

\* C4: a rebalance step records its equity point after the financing cost of
\* the date has been taken: between steps the cash of the last recorded point
\* is the cash of the portfolio.
C4_RecordAfterFinancing ==
    \A r \in RunIds :
        (runs[r].pc \in {"running", "done"} /\ runs[r].equity_curve # <<>>)
            => Last(runs[r].equity_curve).cash = runs[r].portfolio.cash

\* C6: two finished runs with the same parameters have the same equity curve,
\* whatever drew from the generator before or between them.
C6_Deterministic ==
    \A r1, r2 \in RunIds :
        (runs[r1].pc = "done" /\ runs[r2].pc = "done"
         /\ runs[r1].params = runs[r2].params)
            => runs[r1].equity_curve = runs[r2].equity_curve

\* two finished daily runs of three steps each, with equal curves
C6_Witness ==
    /\ runs[1].pc = "done" /\ runs[2].pc = "done"
    /\ runs[1].params = runs[2].params
    /\ Len(runs[1].equity_curve) = 3
    /\ runs[1].equity_curve = runs[2].equity_curve
    /\ runs[1].params.max_position = 600

\* C8: cancellation is cooperative and checked between steps: once it has been
\* requested for a run, the run starts no further rebalance step.
C8_NoStepAfterCancel ==
    [][\A r \in RunIds :
          runs[r].cancel_requested
              => Len(runs'[r].equity_curve) = Len(runs[r].equity_curve)]_vars

----------------------------------------------------------------------------
(* Two runs in one process, their steps interleaved: C7 *)

ConcurrentParams ==
    {[BacktestDefaults EXCEPT !.max_position = 600],
     [BacktestDefaults EXCEPT !.start_date = 6, !.end_date = 8,
                              !.rebalance_freq = "W", !.max_position = 1000]}

NextConcurrent ==
    \/ \E r \in RunIds : StartBacktest(r, ConcurrentParams)
    \/ \E r \in RunIds : RebalanceStep(r)
    \/ \E r \in RunIds : FinishBacktest(r)

SpecConcurrent == Init /\ [][NextConcurrent]_vars

\* C7: runs share no mutable state: whatever the interleaving, a finished run
\* returns what the same call returns when it runs alone.
C7_Isolation ==
    \A r \in RunIds :
        runs[r].pc = "done"
            => ResultOf(runs[r]) = ResultOf(run_backtest(runs[r].params, rng))

----------------------------------------------------------------------------
(* optimize_portfolio: C9, C10 *)

NextOptimizer == optimize_portfolio(OptMethods, OptConstraints)

SpecOptimizer == Init /\ [][NextOptimizer]_vars

Succeeded == optimization.phase = "done" /\ optimization.status = "success"

\* C9: every weight vector optimize_portfolio returns, by any of the three
\* methods, sums to 1 and has no negative weight.
C9_LongOnlyBudget ==
    Succeeded
        => /\ SeqSum(optimization.weights) = OptOne
           /\ \A k \in 1..Len(optimization.weights) : optimization.weights[k] >= 0

\* black_litterman returns a vector with a zero weight
C9_Witness ==
    /\ Succeeded
    /\ optimization.method = "black_litterman"
    /\ \E k \in 1..Len(optimization.weights) : optimization.weights[k] = 0

MethodConstraints(w) ==
    IF optimization.method = "risk_parity"
    THEN risk_parity_constraints(w, optimization.constraints)
    ELSE mean_variance_constraints(w, optimization.constraints,
                                   optimization.market_betas)

\* C11: a solve returns weights only under status 'optimal', and then the
\* solver's own point, which meets every constraint as given; under any other
\* status the task fails with an error naming the status and returns no weights.
C11_OptimalOnly ==
    (optimization.phase = "done" /\ optimization.method \in KnownOptMethods)
        => /\ Succeeded
                => /\ optimization.returned.solver.status = "optimal"
                   /\ optimization.weights = optimization.returned.solver.value
                   /\ MethodConstraints(optimization.weights)
           /\ optimization.returned.solver.status # "optimal"
                => /\ optimization.status = "FAILURE"
                   /\ "weights" \notin DOMAIN optimization
                   /\ optimization.error[2] = optimization.returned.solver.status

\* an inaccurate solve whose point happens to meet the constraints still fails
C11_Witness ==
    /\ optimization.phase = "done"
    /\ optimization.method = "risk_parity"
    /\ optimization.status = "FAILURE"
    /\ optimization.returned.solver.status = "optimal_inaccurate"
    /\ MethodConstraints(optimization.returned.solver.value)

\* C18: with no view, black_litterman_optimization returns what
\* mean_variance_optimization returns on the estimates and constraints the
\* task passed in, the solved problem's own return and volatility included.
C18_NoViewsFallback ==
    (optimization.phase = "done" /\ optimization.method = "black_litterman")
        => optimization.returned \in
              mean_variance_optimization(optimization.expected_returns,
                                         optimization.covariance_matrix,
                                         optimization.constraints,
                                         optimization.market_betas)

\* black_litterman succeeds with no view, on returns that are not all equal
C18_Witness ==
    /\ Succeeded
    /\ optimization.method = "black_litterman"
    /\ tech_symbols = {}
    /\ \E k \in 1..Len(OptSymbols) :
          optimization.expected_returns[k] # optimization.expected_returns[1]

\* C19: the metrics of a returned vector are those of the solved problem: the
\* volatility for all three methods, the expected return for the two methods
\* whose objective has one.
C19_MetricsRoundTrip ==
    Succeeded
        => /\ optimization.metrics.volatility
                = optimization.returned.objective.portfolio_volatility
           /\ optimization.method \in {"mean_variance", "black_litterman"}
                => optimization.metrics.expected_return
                      = optimization.returned.objective.portfolio_return

\* a returned vector with two or more positions, so that covariances count
C19_Witness ==
    /\ Succeeded
    /\ optimization.method \in {"mean_variance", "black_litterman"}
    /\ optimization.metrics.num_positions >= 2
    /\ optimization.metrics.volatility
          = optimization.returned.objective.portfolio_volatility
    /\ optimization.metrics.volatility > 0

\* optimize_portfolio given a method it does not know fails naming the method
UnknownMethodSurfaced ==
    (optimization.phase = "done" /\ optimization.method \notin KnownOptMethods)
        => /\ optimization.status = "FAILURE"
           /\ optimization.error = <<"Unknown optimization method", optimization.method>>
           /\ "weights" \notin DOMAIN optimization

----------------------------------------------------------------------------
(* compute_signals and optimize_portfolio: C12 *)

\* the recipes with default factor configs, and a known and an unknown
\* optimization method under the default constraints
NamesRecipes ==
    {r \in Recipes : /\ \A k \in 1..Len(r.factors) : r.factors[k].config = <<>>
                     /\ "weights" \notin DOMAIN r.combination}
NamesMethods == {"mean_variance", "equal_weight"}
NamesConstraints == {<<>>}

NextNames ==
    \/ compute_signals(NamesRecipes)
    \/ optimize_portfolio(NamesMethods, NamesConstraints)

SpecNames == Init /\ [][NextNames]_vars

KnownFactors == {"momentum", "value", "quality", "growth", "low_vol", "size", "esg"}
KnownCombinations == {"weighted_sum", "pca"}

\* the first factor of the recipe whose compute_factor call does not return
FirstRaising(factors) ==
    LET bad == {i \in 1..Len(factors) :
                    factors[i].name \notin KnownFactors \/ factors[i].name = "low_vol"}
    IN  IF bad = {} THEN 0 ELSE CHOOSE i \in bad : \A j \in bad : i <= j

NothingReturned ==
    /\ signalCase.status = "FAILURE"
    /\ "signals" \notin DOMAIN signalCase
    /\ "combined_signal" \notin DOMAIN signalCase

\* compute_factor given a name it does not know fails naming the name
UnknownFactorSurfaced ==
    signalCase.phase = "done"
        => LET factors == signalCase.recipe.factors
               i == FirstRaising(factors)
           IN  /\ (\E k \in 1..Len(factors) : factors[k].name \notin KnownFactors)
                    => NothingReturned
               /\ (i > 0 /\ factors[i].name \notin KnownFactors)
                    => signalCase.error = <<"Unknown factor", factors[i].name>>

\* combine_signals given a method it does not know fails naming the method
UnknownCombinationSurfaced ==
    (/\ signalCase.phase = "done"
     /\ FirstRaising(signalCase.recipe.factors) = 0
     /\ "method" \in DOMAIN signalCase.recipe.combination
     /\ signalCase.recipe.combination.method \notin KnownCombinations)
        => /\ NothingReturned
           /\ signalCase.error = <<"Unknown combination method",
                                   signalCase.recipe.combination.method>>

\* C12: an unknown factor name, an unknown optimization method and an unknown
\* combination method each raise an error that names the offending value, and
\* the call returns no factor, weights or combined signal.
C12_UnknownNamesRaise ==
    /\ UnknownFactorSurfaced
    /\ UnknownCombinationSurfaced
    /\ UnknownMethodSurfaced

\* an unknown factor after a known one, and an unknown optimization method
C12_Witness ==
    /\ signalCase.phase = "done"
    /\ Len(signalCase.recipe.factors) = 2
    /\ signalCase.recipe.factors[1].name = "value"
    /\ signalCase.recipe.factors[2].name = "carry"
    /\ signalCase.error = <<"Unknown factor", "carry">>
    /\ optimization.phase = "done"
    /\ optimization.method = "equal_weight"
    /\ optimization.status = "FAILURE"

----------------------------------------------------------------------------
(* winsorize_series: C13 *)

NextWinsorize == WinsorizeCall

SpecWinsorize == Init /\ [][NextWinsorize]_vars

\* C13: winsorizing a winsorized series again at the same percentile, for any
\* series and any percentile 0 <= p < 0.5, gives the same series element for
\* element.
C13_Idempotent ==
    winsorCase.phase = "done" => winsorCase.twice = winsorCase.once

----------------------------------------------------------------------------
(* calculate_var_historical, calculate_es_historical: C14 *)

NextRisk == HistoricalRiskCall

SpecRisk == Init /\ [][NextRisk]_vars

DistinctValues(q) == {q[k] : k \in 1..Len(q)}

\* C14: for a return series with more than one distinct value and confidence
\* 0.95, the historical VaR is at most the historical ES.
C14_VarAtMostEs ==
    (/\ riskCase.phase = "done"
     /\ riskCase.confidence = DefaultConfidence
     /\ Cardinality(DistinctValues(riskCase.returns)) > 1)
        => riskCase.var_historical <= riskCase.es_historical

----------------------------------------------------------------------------
(* check_position_limits: C15 *)

NextPosition == PositionLimitsCall

SpecPosition == Init /\ [][NextPosition]_vars

ScenarioWeights == [s \in PositionSymbols |-> IF s = "C" THEN 2000 ELSE 4000]

Cited(rule) == {v.symbol : v \in {x \in positionCase.result.violations : x.rule = rule}}

\* C15: the symbols check_position_limits cites for max_single_position are
\* exactly those whose |weight| is above the limit; weights A 0.4, B 0.4, C 0.2
\* pass the position check at a limit of 0.5 and at a limit of 0.3 give BLOCK,
\* citing A and B and not C.
C15_ExactlyOversized ==
    positionCase.phase = "done"
        => LET max_single == positionCase.ruleset.position_limits.max_single_position
           IN  /\ Cited("max_single_position")
                    = {s \in PositionSymbols : Abs(positionCase.weights[s]) > max_single}
               /\ (positionCase.weights = ScenarioWeights /\ max_single = 5000)
                    => positionCase.result.status = "PASS"
               /\ (positionCase.weights = ScenarioWeights /\ max_single = 3000)
                    => /\ positionCase.verdict = "BLOCK"
                       /\ Cited("max_single_position") = {"A", "B"}

\* the scenario at the limit of 0.3
C15_Witness ==
    /\ positionCase.phase = "done"
    /\ positionCase.weights = ScenarioWeights
    /\ positionCase.ruleset.position_limits.max_single_position = 3000
    /\ positionCase.verdict = "BLOCK"
    /\ Cardinality(positionCase.result.violations) = 2

----------------------------------------------------------------------------
(* generate_twap_slices, generate_vwap_slices: C16, C17 *)

NextSlices ==
    \/ TwapSlicesCall
    \/ VwapSlicesCall

SpecSlices == Init /\ [][NextSlices]_vars

\* slice_data['trades'].get(symbol, 0)
SliceAmount(slice, s) == Get(slice.trades, s, 0)

\* C16: with N >= 1 slices, every TWAP slice carries trade_value / N for every
\* symbol of required_trades.
C16_EvenSplit ==
    (/\ sliceCase.phase = "done"
     /\ sliceCase.kind = "TWAP"
     /\ NumSlices(sliceCase.order_params) >= 1)
        => \A i \in 1..Len(sliceCase.slices), s \in DOMAIN sliceCase.required_trades :
              /\ s \in DOMAIN sliceCase.slices[i].trades
              /\ sliceCase.slices[i].trades[s]
                    = QuoT(sliceCase.required_trades[s], NumSlices(sliceCase.order_params))

\* C17: with three or more VWAP slices, the first and the last slice of a trade
\* are strictly larger in absolute value than every slice between them.
C17_UShaped ==
    (/\ sliceCase.phase = "done"
     /\ sliceCase.kind = "VWAP"
     /\ Len(sliceCase.slices) >= 3)
        => \A s \in DOMAIN sliceCase.required_trades, i \in 2..(Len(sliceCase.slices) - 1) :
              /\ Abs(SliceAmount(sliceCase.slices[1], s))
                    > Abs(SliceAmount(sliceCase.slices[i], s))
              /\ Abs(SliceAmount(sliceCase.slices[Len(sliceCase.slices)], s))
                    > Abs(SliceAmount(sliceCase.slices[i], s))

----------------------------------------------------------------------------
(* request_exception and the compliance checks: C20 *)

NextOverride ==
    \/ run_pre_trade_checks(GateWeights, GateDraws, RulesetIds)
    \/ request_exception

SpecOverride == Init /\ [][NextOverride]_vars

Unreviewed(e) ==
    /\ e.exception_request.status = "PENDING"
    /\ e.exception_request.approved = "None"
    /\ e.exception_request.reviewed_by = "None"

\* C20: every exception request comes back PENDING, with approved None and no
\* reviewer, and stays so; no step takes back a verdict, and a request changes
\* no verdict and not the last check's result.
C20_NeverAutoApproves ==
    [][/\ \A e \in exceptions' : Unreviewed(e)
       /\ verdicts \subseteq verdicts'
       /\ exceptions \subseteq exceptions'
       /\ exceptions' # exceptions => UNCHANGED <<taskVars, compliance, verdicts>>]_vars

\* a request with a justification filed against a BLOCK verdict, still PENDING
C20_Witness ==
    /\ \E v \in verdicts : v.overall_status = "BLOCK"
    /\ compliance.phase = "done"
    /\ compliance.result.overall_status = "BLOCK"
    /\ \E e \in exceptions :
          /\ e.exception_request.justification # ""
          /\ Unreviewed(e)

----------------------------------------------------------------------------
(* The rebalance steps of one run: C23 *)

StrictlyIncreasing(q) == \A k \in 1..(Len(q) - 1) : q[k] < q[k + 1]

DatesOf(curve) == [k \in 1..Len(curve) |-> curve[k].date]

\* the shares a list of trades adds to a symbol
TradedShares(trades, s) ==
    SeqSum([k \in 1..Len(trades) |-> IF trades[k].symbol = s THEN trades[k].shares ELSE 0])

\* the positions that trades leave of the positions they started from
PositionsAfter(portfolio, trades) ==
    LET shares(s) == Get(portfolio.positions, s, 0) + TradedShares(trades, s)
        kept == {s \in BtSymbolSet : shares(s) # 0}
    IN  [s \in kept |-> shares(s)]

\* the cash that trades at a cost rate leave of the cash they started from
CashAfter(portfolio, trades, transaction_costs) ==
    portfolio.cash
    - SeqSum([k \in 1..Len(trades) |->
                trades[k].value + ChargedCost(trades[k].value, transaction_costs)])

DatesInOrder(run) ==
    run.pc \in {"running", "done"}
        => /\ StrictlyIncreasing(run.rebalance_dates)
           /\ \A k \in 1..Len(run.rebalance_dates) :
                 /\ run.params.start_date <= run.rebalance_dates[k]
                 /\ run.rebalance_dates[k] <= run.params.end_date
           /\ DatesOf(run.equity_curve) = SubSeq(run.rebalance_dates, 1, run.i - 1)
           /\ run.pc = "done" => DatesOf(run.equity_curve) = run.rebalance_dates

StepFollows(before, after) ==
    LET trades == SubSeq(after.trades_history, Len(before.trades_history) + 1,
                         Len(after.trades_history))
    IN  /\ Last(after.equity_curve).cash
              = CashAfter(before.portfolio, trades, before.params.transaction_costs)
        /\ Last(after.positions_history).positions
              = PositionsAfter(before.portfolio, trades)

\* C23: in a run the rebalance dates are strictly increasing and lie between
\* the first and the last panel date, the equity curve holds one point for each
\* date passed, in that order, and each step trades from the cash and the
\* positions the step before it left in the Portfolio.
C23_StepsSequential ==
    [][\A r \in RunIds :
          /\ DatesInOrder(runs'[r])
          /\ Len(runs'[r].equity_curve) > Len(runs[r].equity_curve)
                => StepFollows(runs[r], runs'[r])]_vars

\* a finished daily run of three steps whose last step started from holdings
C23_Witness ==
    \E r \in RunIds :
        /\ runs[r].pc = "done"
        /\ Len(runs[r].equity_curve) = 3
        /\ runs[r].positions_history[2].positions # <<>>
        /\ Len(runs[r].trades_history) > 2
        /\ Last(runs[r].equity_curve).cash # runs[r].equity_curve[1].cash

----------------------------------------------------------------------------
(* generate_vwap_slices: C22 *)

SliceTotal(slices, s) ==
    SeqSum([i \in 1..Len(slices) |-> SliceAmount(slices[i], s)])

\* C22: for every symbol of required_trades the VWAP slice amounts sum to the
\* required trade value (to within the dollar each slice may lose to rounding):
\* the multipliers move notional between slices and leave the total alone.
C22_SlicesSumToTrade ==
    (/\ sliceCase.phase = "done"
     /\ sliceCase.kind = "VWAP"
     /\ Len(sliceCase.slices) >= 1)
        => \A s \in DOMAIN sliceCase.required_trades :
              Abs(SliceTotal(sliceCase.slices, s) - sliceCase.required_trades[s])
                  <= Len(sliceCase.slices)

----------------------------------------------------------------------------
(* Portfolio.rebalance and Portfolio.update_value: C26, C27 *)

AllPriced(call) ==
    Held(call.before) \cup DOMAIN call.target_weights \subseteq DOMAIN call.prices

\* what the rebalance took from cash beyond the value of its trades
CostsDeducted(call) ==
    call.before.cash - call.after.cash - TradesValue(call.trades)

C27_UnpricedUntouched ==
    rebalanceCase.phase = "done"
        => \A s \in Held(rebalanceCase.before) \ DOMAIN rebalanceCase.prices :
              /\ s \in Held(rebalanceCase.after)
              /\ rebalanceCase.after.positions[s] = rebalanceCase.before.positions[s]
              /\ \A k \in 1..Len(rebalanceCase.trades) :
                    rebalanceCase.trades[k].symbol # s

----------------------------------------------------------------------------
(* run_pre_trade_checks: the verdict and the report, C28 *)

\* C28: in every result of run_pre_trade_checks, overall_status is BLOCK iff the
\* report lists a violation, REVIEW iff it lists no violation and some warning,
\* OK iff it lists neither; and the three counts of the summary add up to
\* total_checks.
C28_VerdictAgreesWithReport ==
    compliance.phase = "done"
        => LET report == compliance.result.compliance_report
               verdict == compliance.result.overall_status
           IN  /\ report.overall_status = verdict
               /\ (verdict = "BLOCK") <=> (report.violations # {})
               /\ (verdict = "REVIEW") <=> (report.violations = {}
                                             /\ report.warnings # {})
               /\ (verdict = "OK") <=> (report.violations = {} /\ report.warnings = {})
               /\ report.summary.passed_checks + report.summary.warning_checks
                    + report.summary.failed_checks = report.summary.total_checks

\* a REVIEW verdict over a report with warnings only, some checks passing
C28_Witness ==
    /\ compliance.phase = "done"
    /\ compliance.result.overall_status = "REVIEW"
    /\ compliance.result.compliance_report.violations = {}
    /\ compliance.result.compliance_report.warnings # {}
    /\ compliance.result.compliance_report.summary.warning_checks >= 1
    /\ compliance.result.compliance_report.summary.passed_checks >= 1

----------------------------------------------------------------------------
(* run_pre_trade_checks with any ruleset_id: C30 *)

\* the ruleset ids a caller may send: the known ones and one no ruleset has
RequestedRulesetIds == RulesetIds \cup {"market_neutral_fund"}
RulesetWeights == {[s \in Symbols |-> 300], [s \in Symbols |-> IF s = "A" THEN 900 ELSE 300],
                   [s \in Symbols |-> IF s = "A" THEN -600 ELSE 300]}

NextRuleset ==
    NoCallYet /\ run_pre_trade_checks(RulesetWeights, ComplianceDraws,
                                      RequestedRulesetIds)

SpecRuleset == Init /\ [][NextRuleset]_vars

\* C30: a call with a ruleset_id that names no ruleset returns no verdict: its
\* result is not a success.
C30_UnknownRulesetRejected ==
    (compliance.phase = "done" /\ compliance.ruleset_id \notin DOMAIN Rulesets)
        => compliance.result.status # "success"

----------------------------------------------------------------------------
(* BacktestEngine._apply_constraints: C24 *)

NextConstraints == ApplyConstraintsCall

SpecConstraints == Init /\ [][NextConstraints]_vars

\* C24: for non-negative weights and any max_position, the weights that
\* _apply_constraints returns are all >= 0, none is above max_position, and
\* they sum to 1 (to within the thousandth each may lose to rounding).
C24_WeightsWithinCap ==
    constraintCase.phase = "done"
        => /\ \A k \in 1..Len(constraintCase.result) :
                 /\ constraintCase.result[k] >= 0
                 /\ constraintCase.result[k] <= constraintCase.max_position
           /\ Abs(SeqSum(constraintCase.result) - WeightOne)
                 <= Len(constraintCase.result)

----------------------------------------------------------------------------
(* execute_order: C25.  The loop has no await and no lock: a pass that can run
   does run, and so does the return after the last pass. *)

NextExecution ==
    \/ execute_order_start
    \/ execute_order_fill
    \/ execute_order_finish
    \/ execution.pc = "idle" /\ OtherDraw

SpecExecution ==
    /\ Init
    /\ [][NextExecution]_vars
    /\ WF_vars(execute_order_fill)
    /\ WF_vars(execute_order_finish)

FillsWithinRange ==
    execution.pc # "idle"
        => \A k \in 1..Len(execution.fills) :
              execution.fills[k] > 0 /\ execution.fills[k] <= MaxFill

FilledExactly ==
    execution.pc = "done"
        => /\ execution.remaining_quantity = 0
           /\ SeqSum(execution.fills) = execution.total_quantity
           /\ execution.updates = <<"FILLED">>

NoEarlyUpdate == execution.pc = "filling" => execution.updates = <<>>

\* C25: execute_order ends for every positive quantity: the loop is left with
\* nothing remaining, every fill is positive and at most 500, the fills add up
\* to the quantity asked for, and one FILLED update is issued, after the last
\* fill and never before it.
C25_ExecutionTerminates ==
    /\ [](FillsWithinRange /\ FilledExactly /\ NoEarlyUpdate)
    /\ [][execution.pc = "done" => execution' = execution]_vars
    /\ (execution.pc = "filling") ~> (execution.pc = "done")

\* the default quantity filled in four or more fills, the last one cut to what
\* remained
C25_Witness ==
    /\ execution.pc = "done"
    /\ execution.total_quantity = DefaultQuantity
    /\ Len(execution.fills) >= 4
    /\ Last(execution.fills) \notin {FillChoices[k] : k \in 1..Len(FillChoices)}
    /\ execution.updates = <<"FILLED">>

----------------------------------------------------------------------------
(* execute_order_slice called any number of times on a stored order: C29 *)

SliceExecParams == {[duration |-> 120, slice_duration |-> 60]}

NextSliceExecution ==
    \/ create_twap_order(GateWeights, SliceExecParams)
    \/ execute_order_slice

SpecSliceExecution == Init /\ [][NextSliceExecution]_vars

ExecutedSlices(order) ==
    {k \in 1..Len(order.slices) : order.slices[k].status = "EXECUTED"}

----------------------------------------------------------------------------
(* discover_strategies: C21 *)

NextDiscovery == discover_strategies

SpecDiscovery == Init /\ [][NextDiscovery]_vars

\* C21: a task in which an exception occurred does not return a 'success'
\* result: when a step of discover_strategies raised, the task's status is not
\* success.
C21_FailureReported ==
    (/\ discovery.phase = "done"
     /\ \E k \in 1..Len(Helpers) : discovery.outcomes[k].kind = "raises")
        => discovery.status # "success"

====
